---- MODULE Spec2Model ----
(***************************************************************************)
(* Confidential-transfer extension of the token program: the instruction   *)
(* handlers of extension/confidential_transfer/processor.rs as a state     *)
(* machine over two token accounts and one mint.                           *)
(*                                                                         *)
(* Ciphertexts are modelled by their algebra.  A Pedersen commitment       *)
(* v*G + r*H is the pair (v, r); a decryption handle r*P_k is a vector of  *)
(* coefficients over the public keys; an ElGamal ciphertext is a           *)
(* commitment followed by a handle.  Equality of model ciphertexts is the  *)
(* byte equality of the program.                                           *)
(*                                                                         *)
(* TLC integers are 32 bits wide, so the 32-bit high part of an amount is  *)
(* HiBits wide and a u64 is WordBits wide; the 16-bit low part keeps its   *)
(* width.                                                                  *)
(***************************************************************************)
EXTENDS Integers, Naturals, Sequences, FiniteSets, TLC

-----------------------------------------------------------------------------
(* Widths and limits *)

LoBits == 16
HiBits == 8
WordBits == LoBits + HiBits + 2
RMod == 3

Pow2(n) == 2 ^ n
U16_MAX == Pow2(LoBits) - 1
U64_MAX == Pow2(WordBits) - 1
MAXIMUM_DEPOSIT_TRANSFER_AMOUNT == U16_MAX + Pow2(LoBits) * (Pow2(HiBits) - 1)

-----------------------------------------------------------------------------
(* Names *)

None == "None"
Accts == {"A", "B"}
OwnerOf(a) == IF a = "A" THEN "alice" ELSE "bob"
KeyOf(a) == IF a = "A" THEN "K1" ELSE "K2"
Keys == {"K1", "K2", "KA", "KW"}
TheMint == "M"

-----------------------------------------------------------------------------
(* Ciphertext algebra *)

HandleZero == [k \in Keys |-> 0]
HandleOf(r, k) == [j \in Keys |-> IF j = k THEN r % RMod ELSE 0]
HandleAdd(g, h) == [k \in Keys |-> (g[k] + h[k]) % RMod]
HandleSub(g, h) == [k \in Keys |-> (g[k] - h[k]) % RMod]
HandleMul(n, h) == [k \in Keys |-> (n * h[k]) % RMod]

CommitmentZero == [v |-> 0, r |-> 0]
Commit(v, r) == [v |-> v, r |-> r % RMod]
CommitmentAdd(c, d) == [v |-> c.v + d.v, r |-> (c.r + d.r) % RMod]
CommitmentSub(c, d) == [v |-> c.v - d.v, r |-> (c.r - d.r) % RMod]
CommitmentMul(n, c) == [v |-> n * c.v, r |-> (n * c.r) % RMod]

Ciphertext(c, h) == [c |-> c, h |-> h]
Zeroed == Ciphertext(CommitmentZero, HandleZero)
Encrypt(k, v, r) == Ciphertext(Commit(v, r), HandleOf(r, k))

Shift == Pow2(LoBits) % RMod

add(a, b) == Ciphertext(CommitmentAdd(a.c, b.c), HandleAdd(a.h, b.h))
subtract(a, b) == Ciphertext(CommitmentSub(a.c, b.c), HandleSub(a.h, b.h))
combine_lo_hi(lo, hi) ==
    Ciphertext([v |-> lo.c.v + Pow2(LoBits) * hi.c.v,
                r |-> (lo.c.r + Shift * hi.c.r) % RMod],
               HandleAdd(lo.h, HandleMul(Shift, hi.h)))
add_with_lo_hi(a, lo, hi) == add(a, combine_lo_hi(lo, hi))
subtract_with_lo_hi(a, lo, hi) == subtract(a, combine_lo_hi(lo, hi))
add_to(a, amount) == Ciphertext([v |-> a.c.v + amount, r |-> a.c.r], a.h)
subtract_from(a, amount) == Ciphertext([v |-> a.c.v - amount, r |-> a.c.r], a.h)

(* Decryption with the secret key of k: defined when the handle is the     *)
(* commitment's randomness times P_k.                                      *)
Decryptable(ct, k) == ct.h = HandleOf(ct.c.r, k)
Decrypt(ct, k) == IF Decryptable(ct, k) THEN ct.c.v ELSE -1

-----------------------------------------------------------------------------
(* Proof data produced by the proof-verification facility *)

(* TransferAmountCiphertext: commitment, source handle, destination        *)
(* handle, auditor handle, 32 bytes each; here one segment each.           *)
TransferAmountCiphertext(v, r, src, dst, aud) ==
    << Commit(v, r), HandleOf(r, src), HandleOf(r, dst), HandleOf(r, aud) >>

(* EncryptedFee: commitment, destination handle, withdraw-withheld-        *)
(* authority handle.                                                       *)
EncryptedFee(v, r, dst, wwa) ==
    << Commit(v, r), HandleOf(r, dst), HandleOf(r, wwa) >>

split_lo(amount) == amount % Pow2(LoBits)
split_hi(amount) == amount \div Pow2(LoBits)

PubkeyValidityProofContext(k) == [pubkey |-> k]

ZeroBalanceProofContext(k, ct) == [pubkey |-> k, ciphertext |-> ct]

WithdrawProofContext(k, balance, amount) ==
    [pubkey |-> k, final_ciphertext |-> subtract_from(balance, amount)]

TransferProofContext(src, dst, aud, balance, amount, r) ==
    LET lo == TransferAmountCiphertext(split_lo(amount), r, src, dst, aud)
        hi == TransferAmountCiphertext(split_hi(amount), r, src, dst, aud)
    IN  [ciphertext_lo |-> lo,
         ciphertext_hi |-> hi,
         transfer_pubkeys |-> [source |-> src, destination |-> dst, auditor |-> aud],
         new_source_ciphertext |->
             subtract_with_lo_hi(balance, Ciphertext(lo[1], lo[2]), Ciphertext(hi[1], hi[2]))]

(* fee = min(ceil(amount * basis_points / 10000), maximum_fee) *)
calculate_fee(amount, fee) ==
    LET q == amount \div 10000
        m == amount % 10000
        raw == q * fee.basis_points + ((m * fee.basis_points + 9999) \div 10000)
    IN  IF raw > fee.maximum_fee THEN fee.maximum_fee ELSE raw

(* The fee is committed under an opening of its own, r + 1, not the       *)
(* amount's.                                                               *)
TransferWithFeeProofContext(src, dst, aud, wwa, balance, amount, fee, r) ==
    LET lo == TransferAmountCiphertext(split_lo(amount), r, src, dst, aud)
        hi == TransferAmountCiphertext(split_hi(amount), r, src, dst, aud)
        f  == calculate_fee(amount, fee)
    IN  [ciphertext_lo |-> lo,
         ciphertext_hi |-> hi,
         transfer_with_fee_pubkeys |->
             [source |-> src, destination |-> dst, auditor |-> aud,
              withdraw_withheld_authority |-> wwa],
         new_source_ciphertext |->
             subtract_with_lo_hi(balance, Ciphertext(lo[1], lo[2]), Ciphertext(hi[1], hi[2])),
         fee_ciphertext_lo |-> EncryptedFee(split_lo(f), r + 1, dst, wwa),
         fee_ciphertext_hi |-> EncryptedFee(split_hi(f), r + 1, dst, wwa),
         fee_parameters |->
             [fee_rate_basis_points |-> fee.basis_points, maximum_fee |-> fee.maximum_fee]]

ProofTypes == {"PubkeyValidity", "ZeroBalance", "Withdraw", "Transfer", "TransferWithFee"}

(* A verified proof: its kind, its context, and (not part of the record)   *)
(* the balance ciphertext and amount it was generated for.                 *)
Proof(type, context, balance, amount) ==
    [proof_type |-> type, proof_context |-> context,
     snapshot |-> balance, amount |-> amount]

-----------------------------------------------------------------------------
(* State *)

VARIABLES
    accounts,   \* token account -> base state and extensions
    mint,       \* the mint: base state and extensions
    epoch,      \* the clock's epoch
    last,       \* the last instruction: what it was and how it ended
    scenario,   \* the inputs the clients draw from; fixed by Init
    steps,      \* the number of instructions that have succeeded
    trip        \* how far account A is through deposit, apply, withdraw, empty

vars == << accounts, mint, epoch, last, scenario, steps, trip >>

Result(err, accts) == [err |-> err, accounts |-> accts]

(* ConfidentialTransferAccount::valid_as_source *)
valid_as_source(ct) ==
    IF ct.approved THEN "Ok" ELSE "ConfidentialTransferAccountNotApproved"

(* ConfidentialTransferAccount::valid_as_destination *)
valid_as_destination(ct) ==
    IF ct.approved /\ ct.allow_confidential_credits
    THEN "Ok" ELSE "ConfidentialTransferDepositsAndTransfersDisabled"

(* ConfidentialTransferAccount::increment_pending_balance_credit_counter:  *)
(* the new counter, or the error when it would exceed the maximum.         *)
increment_pending_balance_credit_counter(ct) ==
    IF ct.pending_balance_credit_counter + 1 > ct.maximum_pending_balance_credit_counter
    THEN [err |-> "MaximumPendingBalanceCreditCounterExceeded", ct |-> ct]
    ELSE [err |-> "Ok",
          ct |-> [ct EXCEPT !.pending_balance_credit_counter = @ + 1]]

(* ConfidentialTransferAccount::closable: a method of the account's        *)
(* confidential-transfer extension, it sees that extension's fields only.  *)
closable(ct) ==
    IF /\ ct.pending_balance_lo = Zeroed
       /\ ct.pending_balance_hi = Zeroed
       /\ ct.available_balance = Zeroed
    THEN "Ok" ELSE "ConfidentialTransferAccountHasBalance"

(* Processor::validate_owner *)
validate_owner(expected_owner, authority) ==
    IF expected_owner # authority.key THEN "OwnerMismatch"
    ELSE IF ~authority.is_signer THEN "MissingRequiredSignature"
    ELSE "Ok"

NoContext == [none |-> TRUE]

(* Size in bytes of ProofContextState<T> for each proof kind *)
ContextStateSize(type) ==
    33 + CASE type = "PubkeyValidity" -> 32
           [] type = "ZeroBalance" -> 96
           [] type = "Withdraw" -> 96
           [] type = "Transfer" -> 416
           [] type = "TransferWithFee" -> 650

(* Variant: a context state account is told apart by its tag only, never  *)
(* by its size.                                                            *)
verify_proof_tag_only(expected, proof, proof_instruction_offset) ==
    IF proof.proof_type # expected
    THEN [err |-> "InvalidInstructionData", context |-> NoContext]
    ELSE [err |-> "Ok", context |-> proof.proof_context]

(* Variant: a context state account with another tag is reported as a bad  *)
(* argument, whatever its size.                                            *)
verify_proof_size_error(expected, proof, proof_instruction_offset) ==
    IF proof.proof_type = expected
    THEN [err |-> "Ok", context |-> proof.proof_context]
    ELSE IF proof_instruction_offset = 0
    THEN [err |-> "InvalidArgument", context |-> NoContext]
    ELSE [err |-> "InvalidInstructionData", context |-> NoContext]

(* verify_*_proof: resolve the proof context of the expected kind from a   *)
(* context state account (offset 0) or a sibling proof instruction.        *)
verify_proof(expected, proof, proof_instruction_offset) ==
    IF proof_instruction_offset = 0
    THEN IF ContextStateSize(proof.proof_type) # ContextStateSize(expected)
         THEN [err |-> "InvalidArgument", context |-> NoContext]
         ELSE IF proof.proof_type # expected
         THEN [err |-> "InvalidInstructionData", context |-> NoContext]
         ELSE [err |-> "Ok", context |-> proof.proof_context]
    ELSE IF proof.proof_type # expected
         THEN [err |-> "InvalidInstructionData", context |-> NoContext]
         ELSE [err |-> "Ok", context |-> proof.proof_context]

-----------------------------------------------------------------------------
(* Handlers: each returns its result and the account data as it left it *)

process_initialize_mint(m, authority, auto_approve_new_account, auditor_encryption_pubkey) ==
    IF m.confidential_transfer.initialized
    THEN [err |-> "ExtensionAlreadyInitialized", mint |-> m]
    ELSE [err |-> "Ok",
          mint |-> [m EXCEPT !.confidential_transfer =
                       [initialized |-> TRUE,
                        authority |-> authority,
                        auto_approve_new_accounts |-> auto_approve_new_account,
                        auditor_elgamal_pubkey |-> auditor_encryption_pubkey]]]

(* Variant: any signer may update the mint *)
process_update_mint_any_signer(m, authority_info, auto_approve_new_account, auditor_encryption_pubkey) ==
    IF ~m.confidential_transfer.initialized
    THEN [err |-> "ExtensionNotFound", mint |-> m]
    ELSE IF m.confidential_transfer.authority = None
    THEN [err |-> "NoAuthorityExists", mint |-> m]
    ELSE IF ~authority_info.is_signer
    THEN [err |-> "MissingRequiredSignature", mint |-> m]
    ELSE [err |-> "Ok",
          mint |-> [m EXCEPT
                       !.confidential_transfer.auto_approve_new_accounts = auto_approve_new_account,
                       !.confidential_transfer.auditor_elgamal_pubkey = auditor_encryption_pubkey]]

process_update_mint(m, authority_info, auto_approve_new_account, auditor_encryption_pubkey) ==
    IF ~m.confidential_transfer.initialized
    THEN [err |-> "ExtensionNotFound", mint |-> m]
    ELSE IF m.confidential_transfer.authority = None
    THEN [err |-> "NoAuthorityExists", mint |-> m]
    ELSE IF ~authority_info.is_signer
    THEN [err |-> "MissingRequiredSignature", mint |-> m]
    ELSE IF m.confidential_transfer.authority # authority_info.key
    THEN [err |-> "OwnerMismatch", mint |-> m]
    ELSE [err |-> "Ok",
          mint |-> [m EXCEPT
                       !.confidential_transfer.auto_approve_new_accounts = auto_approve_new_account,
                       !.confidential_transfer.auditor_elgamal_pubkey = auditor_encryption_pubkey]]

(* Variant: every new account is approved *)
process_configure_account_approved(accts, m, token, mint_key, authority_info, decryptable_zero_balance, maximum_pending_balance_credit_counter, proof, proof_instruction_offset) ==
    LET resolved == verify_proof("PubkeyValidity", proof, proof_instruction_offset)
        acct == accts[token]
        new_ct ==
            [initialized |-> TRUE,
             approved |-> TRUE,
             elgamal_pubkey |-> resolved.context.pubkey,
             maximum_pending_balance_credit_counter |-> maximum_pending_balance_credit_counter,
             pending_balance_lo |-> Zeroed,
             pending_balance_hi |-> Zeroed,
             available_balance |-> Zeroed,
             decryptable_available_balance |-> decryptable_zero_balance,
             allow_confidential_credits |-> TRUE,
             pending_balance_credit_counter |-> 0,
             expected_pending_balance_credit_counter |-> 0,
             actual_pending_balance_credit_counter |-> 0,
             allow_non_confidential_credits |-> TRUE]
        configured == [accts EXCEPT ![token].confidential_transfer = new_ct]
    IN
    IF resolved.err # "Ok" THEN Result(resolved.err, accts)
    ELSE IF acct.mint # mint_key THEN Result("MintMismatch", accts)
    ELSE IF validate_owner(acct.owner, authority_info) # "Ok"
    THEN Result(validate_owner(acct.owner, authority_info), accts)
    ELSE IF ~m.confidential_transfer.initialized THEN Result("ExtensionNotFound", accts)
    ELSE IF acct.confidential_transfer.initialized
    THEN Result("ExtensionAlreadyInitialized", accts)
    ELSE IF m.transfer_fee.initialized
    THEN Result("Ok", [configured EXCEPT
                          ![token].confidential_transfer_fee_amount =
                              [initialized |-> TRUE, withheld_amount |-> Zeroed]])
    ELSE Result("Ok", configured)

(* Variant: an extension already configured is overwritten *)
process_configure_account_overwrite(accts, m, token, mint_key, authority_info, decryptable_zero_balance, maximum_pending_balance_credit_counter, proof, proof_instruction_offset) ==
    LET resolved == verify_proof("PubkeyValidity", proof, proof_instruction_offset)
        acct == accts[token]
        new_ct ==
            [initialized |-> TRUE,
             approved |-> m.confidential_transfer.auto_approve_new_accounts,
             elgamal_pubkey |-> resolved.context.pubkey,
             maximum_pending_balance_credit_counter |-> maximum_pending_balance_credit_counter,
             pending_balance_lo |-> Zeroed,
             pending_balance_hi |-> Zeroed,
             available_balance |-> Zeroed,
             decryptable_available_balance |-> decryptable_zero_balance,
             allow_confidential_credits |-> TRUE,
             pending_balance_credit_counter |-> 0,
             expected_pending_balance_credit_counter |-> 0,
             actual_pending_balance_credit_counter |-> 0,
             allow_non_confidential_credits |-> TRUE]
        configured == [accts EXCEPT ![token].confidential_transfer = new_ct]
    IN
    IF resolved.err # "Ok" THEN Result(resolved.err, accts)
    ELSE IF acct.mint # mint_key THEN Result("MintMismatch", accts)
    ELSE IF validate_owner(acct.owner, authority_info) # "Ok"
    THEN Result(validate_owner(acct.owner, authority_info), accts)
    ELSE IF ~m.confidential_transfer.initialized THEN Result("ExtensionNotFound", accts)
    ELSE IF m.transfer_fee.initialized
    THEN Result("Ok", [configured EXCEPT
                          ![token].confidential_transfer_fee_amount =
                              [initialized |-> TRUE, withheld_amount |-> Zeroed]])
    ELSE Result("Ok", configured)

process_configure_account(accts, m, token, mint_key, authority_info, decryptable_zero_balance, maximum_pending_balance_credit_counter, proof, proof_instruction_offset) ==
    LET resolved == verify_proof("PubkeyValidity", proof, proof_instruction_offset)
        acct == accts[token]
        new_ct ==
            [initialized |-> TRUE,
             approved |-> m.confidential_transfer.auto_approve_new_accounts,
             elgamal_pubkey |-> resolved.context.pubkey,
             maximum_pending_balance_credit_counter |-> maximum_pending_balance_credit_counter,
             pending_balance_lo |-> Zeroed,
             pending_balance_hi |-> Zeroed,
             available_balance |-> Zeroed,
             decryptable_available_balance |-> decryptable_zero_balance,
             allow_confidential_credits |-> TRUE,
             pending_balance_credit_counter |-> 0,
             expected_pending_balance_credit_counter |-> 0,
             actual_pending_balance_credit_counter |-> 0,
             allow_non_confidential_credits |-> TRUE]
        configured == [accts EXCEPT ![token].confidential_transfer = new_ct]
    IN
    IF resolved.err # "Ok" THEN Result(resolved.err, accts)
    ELSE IF acct.mint # mint_key THEN Result("MintMismatch", accts)
    ELSE IF validate_owner(acct.owner, authority_info) # "Ok"
    THEN Result(validate_owner(acct.owner, authority_info), accts)
    ELSE IF ~m.confidential_transfer.initialized THEN Result("ExtensionNotFound", accts)
    ELSE IF acct.confidential_transfer.initialized
    THEN Result("ExtensionAlreadyInitialized", accts)
    ELSE IF m.transfer_fee.initialized
    THEN Result("Ok", [configured EXCEPT
                          ![token].confidential_transfer_fee_amount =
                              [initialized |-> TRUE, withheld_amount |-> Zeroed]])
    ELSE Result("Ok", configured)

(* Variant: any signer may approve an account *)
process_approve_account_any_signer(accts, m, token, authority_info) ==
    IF ~m.confidential_transfer.initialized THEN Result("ExtensionNotFound", accts)
    ELSE IF m.confidential_transfer.authority = None THEN Result("NoAuthorityExists", accts)
    ELSE IF authority_info.is_signer
    THEN IF ~accts[token].confidential_transfer.initialized
         THEN Result("ExtensionNotFound", accts)
         ELSE Result("Ok", [accts EXCEPT ![token].confidential_transfer.approved = TRUE])
    ELSE Result("MissingRequiredSignature", accts)

process_approve_account(accts, m, token, authority_info) ==
    IF ~m.confidential_transfer.initialized THEN Result("ExtensionNotFound", accts)
    ELSE IF m.confidential_transfer.authority = None THEN Result("NoAuthorityExists", accts)
    ELSE IF authority_info.is_signer /\ authority_info.key = m.confidential_transfer.authority
    THEN IF ~accts[token].confidential_transfer.initialized
         THEN Result("ExtensionNotFound", accts)
         ELSE Result("Ok", [accts EXCEPT ![token].confidential_transfer.approved = TRUE])
    ELSE Result("MissingRequiredSignature", accts)

(* Variant: the account is not asked whether it is closable *)
process_empty_account_unchecked(accts, token, authority_info, proof, proof_instruction_offset) ==
    LET resolved == verify_proof("ZeroBalance", proof, proof_instruction_offset)
        acct == accts[token]
        ct == acct.confidential_transfer
        emptied == [accts EXCEPT ![token].confidential_transfer.available_balance = Zeroed]
    IN
    IF resolved.err # "Ok" THEN Result(resolved.err, accts)
    ELSE IF validate_owner(acct.owner, authority_info) # "Ok"
    THEN Result(validate_owner(acct.owner, authority_info), accts)
    ELSE IF ~ct.initialized THEN Result("ExtensionNotFound", accts)
    ELSE IF ct.elgamal_pubkey # resolved.context.pubkey
    THEN Result("ConfidentialTransferElGamalPubkeyMismatch", accts)
    ELSE IF ct.available_balance # resolved.context.ciphertext
    THEN Result("InvalidInstructionData", accts)
    ELSE Result("Ok", emptied)

(* Variant: the proof's ciphertext is not compared with the balance *)
process_empty_account_any_ciphertext(accts, token, authority_info, proof, proof_instruction_offset) ==
    LET resolved == verify_proof("ZeroBalance", proof, proof_instruction_offset)
        acct == accts[token]
        ct == acct.confidential_transfer
        emptied == [accts EXCEPT ![token].confidential_transfer.available_balance = Zeroed]
    IN
    IF resolved.err # "Ok" THEN Result(resolved.err, accts)
    ELSE IF validate_owner(acct.owner, authority_info) # "Ok"
    THEN Result(validate_owner(acct.owner, authority_info), accts)
    ELSE IF ~ct.initialized THEN Result("ExtensionNotFound", accts)
    ELSE IF ct.elgamal_pubkey # resolved.context.pubkey
    THEN Result("ConfidentialTransferElGamalPubkeyMismatch", accts)
    ELSE Result(closable(emptied[token].confidential_transfer), emptied)

process_empty_account(accts, token, authority_info, proof, proof_instruction_offset) ==
    LET resolved == verify_proof("ZeroBalance", proof, proof_instruction_offset)
        acct == accts[token]
        ct == acct.confidential_transfer
        emptied == [accts EXCEPT ![token].confidential_transfer.available_balance = Zeroed]
    IN
    IF resolved.err # "Ok" THEN Result(resolved.err, accts)
    ELSE IF validate_owner(acct.owner, authority_info) # "Ok"
    THEN Result(validate_owner(acct.owner, authority_info), accts)
    ELSE IF ~ct.initialized THEN Result("ExtensionNotFound", accts)
    ELSE IF ct.elgamal_pubkey # resolved.context.pubkey
    THEN Result("ConfidentialTransferElGamalPubkeyMismatch", accts)
    ELSE IF ct.available_balance # resolved.context.ciphertext
    THEN Result("InvalidInstructionData", accts)
    ELSE Result(closable(emptied[token].confidential_transfer), emptied)

(* Variant: the high part is taken one bit too far up *)
verify_and_split_deposit_amount_wrong_shift(amount) ==
    IF amount > MAXIMUM_DEPOSIT_TRANSFER_AMOUNT
    THEN [err |-> "MaximumDepositAmountExceeded", lo |-> 0, hi |-> 0]
    ELSE [err |-> "Ok", lo |-> amount % (U16_MAX + 1), hi |-> amount \div Pow2(LoBits + 1)]

(* Variant: the amount is not compared with the maximum *)
verify_and_split_deposit_amount_unbounded(amount) ==
    IF amount > U64_MAX
    THEN [err |-> "MaximumDepositAmountExceeded", lo |-> 0, hi |-> 0]
    ELSE [err |-> "Ok", lo |-> amount % (U16_MAX + 1), hi |-> amount \div Pow2(LoBits)]

verify_and_split_deposit_amount(amount) ==
    IF amount > MAXIMUM_DEPOSIT_TRANSFER_AMOUNT
    THEN [err |-> "MaximumDepositAmountExceeded", lo |-> 0, hi |-> 0]
    ELSE [err |-> "Ok", lo |-> amount % (U16_MAX + 1), hi |-> amount \div Pow2(LoBits)]

(* Variant: the result of incrementing the credit counter is dropped *)
process_deposit_uncapped(accts, m, token, mint_key, authority_info, amount, expected_decimals) ==
    LET acct == accts[token]
        debited == [accts EXCEPT ![token].amount = @ - amount]
        ct == acct.confidential_transfer
        split == verify_and_split_deposit_amount(amount)
        with_lo == IF split.lo > 0
                   THEN [ct EXCEPT !.pending_balance_lo = add_to(@, split.lo)]
                   ELSE ct
        with_hi == IF split.hi > 0
                   THEN [with_lo EXCEPT !.pending_balance_hi = add_to(@, split.hi)]
                   ELSE with_lo
        credited == [debited EXCEPT ![token].confidential_transfer = with_hi]
        counted == increment_pending_balance_credit_counter(with_hi)
    IN
    IF expected_decimals # m.decimals THEN Result("MintDecimalsMismatch", accts)
    ELSE IF m.non_transferable THEN Result("NonTransferable", accts)
    ELSE IF validate_owner(acct.owner, authority_info) # "Ok"
    THEN Result(validate_owner(acct.owner, authority_info), accts)
    ELSE IF acct.frozen THEN Result("AccountFrozen", accts)
    ELSE IF acct.mint # mint_key THEN Result("MintMismatch", accts)
    ELSE IF acct.is_native THEN Result("Panic", accts)
    ELSE IF acct.amount < amount THEN Result("Overflow", accts)
    ELSE IF ~ct.initialized THEN Result("ExtensionNotFound", debited)
    ELSE IF valid_as_destination(ct) # "Ok" THEN Result(valid_as_destination(ct), debited)
    ELSE IF split.err # "Ok" THEN Result(split.err, debited)
    ELSE Result("Ok", [debited EXCEPT ![token].confidential_transfer =
                          [with_hi EXCEPT !.pending_balance_credit_counter = @ + 1]])

(* Variant: the low part of a deposit goes to the available balance *)
process_deposit_to_available(accts, m, token, mint_key, authority_info, amount, expected_decimals) ==
    LET acct == accts[token]
        debited == [accts EXCEPT ![token].amount = @ - amount]
        ct == acct.confidential_transfer
        split == verify_and_split_deposit_amount(amount)
        with_lo == IF split.lo > 0
                   THEN [ct EXCEPT !.available_balance = add_to(@, split.lo)]
                   ELSE ct
        with_hi == IF split.hi > 0
                   THEN [with_lo EXCEPT !.pending_balance_hi = add_to(@, split.hi)]
                   ELSE with_lo
        credited == [debited EXCEPT ![token].confidential_transfer = with_hi]
        counted == increment_pending_balance_credit_counter(with_hi)
    IN
    IF expected_decimals # m.decimals THEN Result("MintDecimalsMismatch", accts)
    ELSE IF m.non_transferable THEN Result("NonTransferable", accts)
    ELSE IF validate_owner(acct.owner, authority_info) # "Ok"
    THEN Result(validate_owner(acct.owner, authority_info), accts)
    ELSE IF acct.frozen THEN Result("AccountFrozen", accts)
    ELSE IF acct.mint # mint_key THEN Result("MintMismatch", accts)
    ELSE IF acct.is_native THEN Result("Panic", accts)
    ELSE IF acct.amount < amount THEN Result("Overflow", accts)
    ELSE IF ~ct.initialized THEN Result("ExtensionNotFound", debited)
    ELSE IF valid_as_destination(ct) # "Ok" THEN Result(valid_as_destination(ct), debited)
    ELSE IF split.err # "Ok" THEN Result(split.err, debited)
    ELSE IF counted.err # "Ok" THEN Result(counted.err, credited)
    ELSE Result("Ok", [debited EXCEPT ![token].confidential_transfer = counted.ct])

(* Variant: a deposit does not ask whether the account takes credits *)
process_deposit_ungated(accts, m, token, mint_key, authority_info, amount, expected_decimals) ==
    LET acct == accts[token]
        debited == [accts EXCEPT ![token].amount = @ - amount]
        ct == acct.confidential_transfer
        split == verify_and_split_deposit_amount(amount)
        with_lo == IF split.lo > 0
                   THEN [ct EXCEPT !.pending_balance_lo = add_to(@, split.lo)]
                   ELSE ct
        with_hi == IF split.hi > 0
                   THEN [with_lo EXCEPT !.pending_balance_hi = add_to(@, split.hi)]
                   ELSE with_lo
        credited == [debited EXCEPT ![token].confidential_transfer = with_hi]
        counted == increment_pending_balance_credit_counter(with_hi)
    IN
    IF expected_decimals # m.decimals THEN Result("MintDecimalsMismatch", accts)
    ELSE IF m.non_transferable THEN Result("NonTransferable", accts)
    ELSE IF validate_owner(acct.owner, authority_info) # "Ok"
    THEN Result(validate_owner(acct.owner, authority_info), accts)
    ELSE IF acct.frozen THEN Result("AccountFrozen", accts)
    ELSE IF acct.mint # mint_key THEN Result("MintMismatch", accts)
    ELSE IF acct.is_native THEN Result("Panic", accts)
    ELSE IF acct.amount < amount THEN Result("Overflow", accts)
    ELSE IF ~ct.initialized THEN Result("ExtensionNotFound", debited)
    ELSE IF split.err # "Ok" THEN Result(split.err, debited)
    ELSE IF counted.err # "Ok" THEN Result(counted.err, credited)
    ELSE Result("Ok", [debited EXCEPT ![token].confidential_transfer = counted.ct])

(* Variant: a deposit of 0 does not count as a credit *)
process_deposit_skips_zero(accts, m, token, mint_key, authority_info, amount, expected_decimals) ==
    LET acct == accts[token]
        debited == [accts EXCEPT ![token].amount = @ - amount]
        ct == acct.confidential_transfer
        split == verify_and_split_deposit_amount(amount)
        with_lo == IF split.lo > 0
                   THEN [ct EXCEPT !.pending_balance_lo = add_to(@, split.lo)]
                   ELSE ct
        with_hi == IF split.hi > 0
                   THEN [with_lo EXCEPT !.pending_balance_hi = add_to(@, split.hi)]
                   ELSE with_lo
        credited == [debited EXCEPT ![token].confidential_transfer = with_hi]
        counted == IF amount = 0 THEN [err |-> "Ok", ct |-> with_hi]
                   ELSE increment_pending_balance_credit_counter(with_hi)
    IN
    IF expected_decimals # m.decimals THEN Result("MintDecimalsMismatch", accts)
    ELSE IF m.non_transferable THEN Result("NonTransferable", accts)
    ELSE IF validate_owner(acct.owner, authority_info) # "Ok"
    THEN Result(validate_owner(acct.owner, authority_info), accts)
    ELSE IF acct.frozen THEN Result("AccountFrozen", accts)
    ELSE IF acct.mint # mint_key THEN Result("MintMismatch", accts)
    ELSE IF acct.is_native THEN Result("Panic", accts)
    ELSE IF acct.amount < amount THEN Result("Overflow", accts)
    ELSE IF ~ct.initialized THEN Result("ExtensionNotFound", debited)
    ELSE IF valid_as_destination(ct) # "Ok" THEN Result(valid_as_destination(ct), debited)
    ELSE IF split.err # "Ok" THEN Result(split.err, debited)
    ELSE IF counted.err # "Ok" THEN Result(counted.err, credited)
    ELSE Result("Ok", [debited EXCEPT ![token].confidential_transfer = counted.ct])

(* Variant: a frozen account is not turned away *)
process_deposit_on_frozen(accts, m, token, mint_key, authority_info, amount, expected_decimals) ==
    LET acct == accts[token]
        debited == [accts EXCEPT ![token].amount = @ - amount]
        ct == acct.confidential_transfer
        split == verify_and_split_deposit_amount(amount)
        with_lo == IF split.lo > 0
                   THEN [ct EXCEPT !.pending_balance_lo = add_to(@, split.lo)]
                   ELSE ct
        with_hi == IF split.hi > 0
                   THEN [with_lo EXCEPT !.pending_balance_hi = add_to(@, split.hi)]
                   ELSE with_lo
        credited == [debited EXCEPT ![token].confidential_transfer = with_hi]
        counted == increment_pending_balance_credit_counter(with_hi)
    IN
    IF expected_decimals # m.decimals THEN Result("MintDecimalsMismatch", accts)
    ELSE IF m.non_transferable THEN Result("NonTransferable", accts)
    ELSE IF validate_owner(acct.owner, authority_info) # "Ok"
    THEN Result(validate_owner(acct.owner, authority_info), accts)
    ELSE IF acct.mint # mint_key THEN Result("MintMismatch", accts)
    ELSE IF acct.is_native THEN Result("Panic", accts)
    ELSE IF acct.amount < amount THEN Result("Overflow", accts)
    ELSE IF ~ct.initialized THEN Result("ExtensionNotFound", debited)
    ELSE IF valid_as_destination(ct) # "Ok" THEN Result(valid_as_destination(ct), debited)
    ELSE IF split.err # "Ok" THEN Result(split.err, debited)
    ELSE IF counted.err # "Ok" THEN Result(counted.err, credited)
    ELSE Result("Ok", [debited EXCEPT ![token].confidential_transfer = counted.ct])

process_deposit(accts, m, token, mint_key, authority_info, amount, expected_decimals) ==
    LET acct == accts[token]
        debited == [accts EXCEPT ![token].amount = @ - amount]
        ct == acct.confidential_transfer
        split == verify_and_split_deposit_amount(amount)
        with_lo == IF split.lo > 0
                   THEN [ct EXCEPT !.pending_balance_lo = add_to(@, split.lo)]
                   ELSE ct
        with_hi == IF split.hi > 0
                   THEN [with_lo EXCEPT !.pending_balance_hi = add_to(@, split.hi)]
                   ELSE with_lo
        credited == [debited EXCEPT ![token].confidential_transfer = with_hi]
        counted == increment_pending_balance_credit_counter(with_hi)
    IN
    IF expected_decimals # m.decimals THEN Result("MintDecimalsMismatch", accts)
    ELSE IF m.non_transferable THEN Result("NonTransferable", accts)
    ELSE IF validate_owner(acct.owner, authority_info) # "Ok"
    THEN Result(validate_owner(acct.owner, authority_info), accts)
    ELSE IF acct.frozen THEN Result("AccountFrozen", accts)
    ELSE IF acct.mint # mint_key THEN Result("MintMismatch", accts)
    ELSE IF acct.is_native THEN Result("Panic", accts)
    ELSE IF acct.amount < amount THEN Result("Overflow", accts)
    ELSE IF ~ct.initialized THEN Result("ExtensionNotFound", debited)
    ELSE IF valid_as_destination(ct) # "Ok" THEN Result(valid_as_destination(ct), debited)
    ELSE IF split.err # "Ok" THEN Result(split.err, debited)
    ELSE IF counted.err # "Ok" THEN Result(counted.err, credited)
    ELSE Result("Ok", [debited EXCEPT ![token].confidential_transfer = counted.ct])

(* Variant: the new available balance is not compared with the proof's *)
process_withdraw_unchecked(accts, m, token, mint_key, authority_info, amount, expected_decimals, new_decryptable_available_balance, proof, proof_instruction_offset) ==
    LET resolved == verify_proof("Withdraw", proof, proof_instruction_offset)
        acct == accts[token]
        ct == acct.confidential_transfer
        subtracted ==
            IF amount > 0
            THEN [accts EXCEPT ![token].confidential_transfer.available_balance =
                                   subtract_from(@, amount)]
            ELSE accts
        hinted == [subtracted EXCEPT
                      ![token].confidential_transfer.decryptable_available_balance =
                          new_decryptable_available_balance]
    IN
    IF resolved.err # "Ok" THEN Result(resolved.err, accts)
    ELSE IF expected_decimals # m.decimals THEN Result("MintDecimalsMismatch", accts)
    ELSE IF m.non_transferable THEN Result("NonTransferable", accts)
    ELSE IF validate_owner(acct.owner, authority_info) # "Ok"
    THEN Result(validate_owner(acct.owner, authority_info), accts)
    ELSE IF acct.frozen THEN Result("AccountFrozen", accts)
    ELSE IF acct.mint # mint_key THEN Result("MintMismatch", accts)
    ELSE IF acct.is_native THEN Result("Panic", accts)
    ELSE IF ~ct.initialized THEN Result("ExtensionNotFound", accts)
    ELSE IF valid_as_source(ct) # "Ok" THEN Result(valid_as_source(ct), accts)
    ELSE IF ct.elgamal_pubkey # resolved.context.pubkey
    THEN Result("ConfidentialTransferElGamalPubkeyMismatch", accts)
    ELSE IF acct.amount + amount > U64_MAX THEN Result("Overflow", hinted)
    ELSE Result("Ok", [hinted EXCEPT ![token].amount = @ + amount])

process_withdraw(accts, m, token, mint_key, authority_info, amount, expected_decimals, new_decryptable_available_balance, proof, proof_instruction_offset) ==
    LET resolved == verify_proof("Withdraw", proof, proof_instruction_offset)
        acct == accts[token]
        ct == acct.confidential_transfer
        subtracted ==
            IF amount > 0
            THEN [accts EXCEPT ![token].confidential_transfer.available_balance =
                                   subtract_from(@, amount)]
            ELSE accts
        hinted == [subtracted EXCEPT
                      ![token].confidential_transfer.decryptable_available_balance =
                          new_decryptable_available_balance]
    IN
    IF resolved.err # "Ok" THEN Result(resolved.err, accts)
    ELSE IF expected_decimals # m.decimals THEN Result("MintDecimalsMismatch", accts)
    ELSE IF m.non_transferable THEN Result("NonTransferable", accts)
    ELSE IF validate_owner(acct.owner, authority_info) # "Ok"
    THEN Result(validate_owner(acct.owner, authority_info), accts)
    ELSE IF acct.frozen THEN Result("AccountFrozen", accts)
    ELSE IF acct.mint # mint_key THEN Result("MintMismatch", accts)
    ELSE IF acct.is_native THEN Result("Panic", accts)
    ELSE IF ~ct.initialized THEN Result("ExtensionNotFound", accts)
    ELSE IF valid_as_source(ct) # "Ok" THEN Result(valid_as_source(ct), accts)
    ELSE IF ct.elgamal_pubkey # resolved.context.pubkey
    THEN Result("ConfidentialTransferElGamalPubkeyMismatch", accts)
    ELSE IF subtracted[token].confidential_transfer.available_balance
                # resolved.context.final_ciphertext
    THEN Result("ConfidentialTransferBalanceMismatch", subtracted)
    ELSE IF acct.amount + amount > U64_MAX THEN Result("Overflow", hinted)
    ELSE Result("Ok", [hinted EXCEPT ![token].amount = @ + amount])

(* Extraction of one party's ElGamal ciphertext from the segments *)
transfer_amount_source_ciphertext(tac) == Ciphertext(tac[1], tac[2])
(* Variant: the destination's amount ciphertext taken with the source's    *)
(* handle.                                                                 *)
transfer_amount_destination_ciphertext_source_handle(tac) == Ciphertext(tac[1], tac[2])
transfer_amount_destination_ciphertext(tac) == Ciphertext(tac[1], tac[3])
(* Variant: the destination's fee ciphertext taken with the withdraw       *)
(* withheld authority's handle.                                            *)
fee_amount_destination_ciphertext_authority_handle(fee) == Ciphertext(fee[1], fee[3])
fee_amount_destination_ciphertext(fee) == Ciphertext(fee[1], fee[2])
fee_amount_withdraw_withheld_authority_ciphertext(fee) == Ciphertext(fee[1], fee[3])

(* OptionalNonZeroElGamalPubkey::equals: an absent key equals the zero key *)
equals(optional_pubkey, pubkey) == optional_pubkey = pubkey

(* TransferFeeConfig::get_epoch_fee *)
get_epoch_fee(transfer_fee_config, current_epoch) ==
    IF current_epoch >= transfer_fee_config.newer_transfer_fee.epoch
    THEN transfer_fee_config.newer_transfer_fee
    ELSE transfer_fee_config.older_transfer_fee

(* memo_transfer::check_previous_sibling_instruction_is_memo: whether the  *)
(* instruction just before this one in the transaction is a memo.          *)
check_previous_sibling_instruction_is_memo(previous_is_memo) ==
    IF previous_is_memo THEN "Ok" ELSE "NoMemo"

(* Variant: the new source balance is not compared with the proof's *)
process_source_for_transfer_unchecked(accts, source, mint_key, authority_info, source_encryption_pubkey, source_transfer_amount_lo, source_transfer_amount_hi, expected_new_source_available_balance, new_source_decryptable_available_balance) ==
    LET acct == accts[source]
        ct == acct.confidential_transfer
        new_source_available_balance ==
            subtract_with_lo_hi(ct.available_balance,
                                source_transfer_amount_lo, source_transfer_amount_hi)
    IN
    IF validate_owner(acct.owner, authority_info) # "Ok"
    THEN Result(validate_owner(acct.owner, authority_info), accts)
    ELSE IF acct.frozen THEN Result("AccountFrozen", accts)
    ELSE IF acct.mint # mint_key THEN Result("MintMismatch", accts)
    ELSE IF ~ct.initialized THEN Result("ExtensionNotFound", accts)
    ELSE IF valid_as_source(ct) # "Ok" THEN Result(valid_as_source(ct), accts)
    ELSE IF source_encryption_pubkey # ct.elgamal_pubkey
    THEN Result("ConfidentialTransferElGamalPubkeyMismatch", accts)
    ELSE Result("Ok",
                [accts EXCEPT
                    ![source].confidential_transfer.available_balance =
                        new_source_available_balance,
                    ![source].confidential_transfer.decryptable_available_balance =
                        new_source_decryptable_available_balance])

(* Variant: the key the proof attests for the source is not compared *)
process_source_for_transfer_any_key(accts, source, mint_key, authority_info, source_encryption_pubkey, source_transfer_amount_lo, source_transfer_amount_hi, expected_new_source_available_balance, new_source_decryptable_available_balance) ==
    LET acct == accts[source]
        ct == acct.confidential_transfer
        new_source_available_balance ==
            subtract_with_lo_hi(ct.available_balance,
                                source_transfer_amount_lo, source_transfer_amount_hi)
    IN
    IF validate_owner(acct.owner, authority_info) # "Ok"
    THEN Result(validate_owner(acct.owner, authority_info), accts)
    ELSE IF acct.frozen THEN Result("AccountFrozen", accts)
    ELSE IF acct.mint # mint_key THEN Result("MintMismatch", accts)
    ELSE IF ~ct.initialized THEN Result("ExtensionNotFound", accts)
    ELSE IF valid_as_source(ct) # "Ok" THEN Result(valid_as_source(ct), accts)
    ELSE IF new_source_available_balance # expected_new_source_available_balance
    THEN Result("ConfidentialTransferBalanceMismatch", accts)
    ELSE Result("Ok",
                [accts EXCEPT
                    ![source].confidential_transfer.available_balance =
                        new_source_available_balance,
                    ![source].confidential_transfer.decryptable_available_balance =
                        new_source_decryptable_available_balance])

(* Variant: the source keeps its old decryptable balance *)
process_source_for_transfer_keeps_hint(accts, source, mint_key, authority_info, source_encryption_pubkey, source_transfer_amount_lo, source_transfer_amount_hi, expected_new_source_available_balance, new_source_decryptable_available_balance) ==
    LET acct == accts[source]
        ct == acct.confidential_transfer
        new_source_available_balance ==
            subtract_with_lo_hi(ct.available_balance,
                                source_transfer_amount_lo, source_transfer_amount_hi)
    IN
    IF validate_owner(acct.owner, authority_info) # "Ok"
    THEN Result(validate_owner(acct.owner, authority_info), accts)
    ELSE IF acct.frozen THEN Result("AccountFrozen", accts)
    ELSE IF acct.mint # mint_key THEN Result("MintMismatch", accts)
    ELSE IF ~ct.initialized THEN Result("ExtensionNotFound", accts)
    ELSE IF valid_as_source(ct) # "Ok" THEN Result(valid_as_source(ct), accts)
    ELSE IF source_encryption_pubkey # ct.elgamal_pubkey
    THEN Result("ConfidentialTransferElGamalPubkeyMismatch", accts)
    ELSE IF new_source_available_balance # expected_new_source_available_balance
    THEN Result("ConfidentialTransferBalanceMismatch", accts)
    ELSE Result("Ok",
                [accts EXCEPT
                    ![source].confidential_transfer.available_balance =
                        new_source_available_balance])

process_source_for_transfer(accts, source, mint_key, authority_info, source_encryption_pubkey, source_transfer_amount_lo, source_transfer_amount_hi, expected_new_source_available_balance, new_source_decryptable_available_balance) ==
    LET acct == accts[source]
        ct == acct.confidential_transfer
        new_source_available_balance ==
            subtract_with_lo_hi(ct.available_balance,
                                source_transfer_amount_lo, source_transfer_amount_hi)
    IN
    IF validate_owner(acct.owner, authority_info) # "Ok"
    THEN Result(validate_owner(acct.owner, authority_info), accts)
    ELSE IF acct.frozen THEN Result("AccountFrozen", accts)
    ELSE IF acct.mint # mint_key THEN Result("MintMismatch", accts)
    ELSE IF ~ct.initialized THEN Result("ExtensionNotFound", accts)
    ELSE IF valid_as_source(ct) # "Ok" THEN Result(valid_as_source(ct), accts)
    ELSE IF source_encryption_pubkey # ct.elgamal_pubkey
    THEN Result("ConfidentialTransferElGamalPubkeyMismatch", accts)
    ELSE IF new_source_available_balance # expected_new_source_available_balance
    THEN Result("ConfidentialTransferBalanceMismatch", accts)
    ELSE Result("Ok",
                [accts EXCEPT
                    ![source].confidential_transfer.available_balance =
                        new_source_available_balance,
                    ![source].confidential_transfer.decryptable_available_balance =
                        new_source_decryptable_available_balance])

(* Variant: the result of incrementing the credit counter is dropped *)
process_destination_for_transfer_uncapped(accts, destination, mint_key, destination_encryption_pubkey, destination_transfer_amount_lo, destination_transfer_amount_hi, encrypted_fee, previous_is_memo) ==
    LET acct == accts[destination]
        ct == acct.confidential_transfer
        added == [ct EXCEPT
                     !.pending_balance_lo = add(@, destination_transfer_amount_lo),
                     !.pending_balance_hi = add(@, destination_transfer_amount_hi)]
        counted == [err |-> "Ok",
                    ct |-> [added EXCEPT !.pending_balance_credit_counter = @ + 1]]
        destination_fee_lo == fee_amount_destination_ciphertext(encrypted_fee[1])
        destination_fee_hi == fee_amount_destination_ciphertext(encrypted_fee[2])
        netted == [counted.ct EXCEPT
                      !.pending_balance_lo = subtract(@, destination_fee_lo),
                      !.pending_balance_hi = subtract(@, destination_fee_hi)]
        withdraw_withheld_authority_fee_lo ==
            fee_amount_withdraw_withheld_authority_ciphertext(encrypted_fee[1])
        withdraw_withheld_authority_fee_hi ==
            fee_amount_withdraw_withheld_authority_ciphertext(encrypted_fee[2])
    IN
    IF acct.frozen THEN Result("AccountFrozen", accts)
    ELSE IF acct.mint # mint_key THEN Result("MintMismatch", accts)
    ELSE IF acct.memo_required /\ check_previous_sibling_instruction_is_memo(previous_is_memo) # "Ok"
    THEN Result(check_previous_sibling_instruction_is_memo(previous_is_memo), accts)
    ELSE IF ~ct.initialized THEN Result("ExtensionNotFound", accts)
    ELSE IF valid_as_destination(ct) # "Ok" THEN Result(valid_as_destination(ct), accts)
    ELSE IF destination_encryption_pubkey # ct.elgamal_pubkey
    THEN Result("ConfidentialTransferElGamalPubkeyMismatch", accts)
    ELSE IF counted.err # "Ok"
    THEN Result(counted.err, [accts EXCEPT ![destination].confidential_transfer = added])
    ELSE IF encrypted_fee = << >>
    THEN Result("Ok", [accts EXCEPT ![destination].confidential_transfer = counted.ct])
    ELSE IF ~acct.confidential_transfer_fee_amount.initialized
    THEN Result("ExtensionNotFound",
                [accts EXCEPT ![destination].confidential_transfer = netted])
    ELSE Result("Ok",
                [accts EXCEPT
                    ![destination].confidential_transfer = netted,
                    ![destination].confidential_transfer_fee_amount.withheld_amount =
                        add_with_lo_hi(@, withdraw_withheld_authority_fee_lo,
                                       withdraw_withheld_authority_fee_hi)])

(* Variant: the destination is never asked whether it requires a memo *)
process_destination_for_transfer_no_memo(accts, destination, mint_key, destination_encryption_pubkey, destination_transfer_amount_lo, destination_transfer_amount_hi, encrypted_fee, previous_is_memo) ==
    LET acct == accts[destination]
        ct == acct.confidential_transfer
        added == [ct EXCEPT
                     !.pending_balance_lo = add(@, destination_transfer_amount_lo),
                     !.pending_balance_hi = add(@, destination_transfer_amount_hi)]
        counted == increment_pending_balance_credit_counter(added)
        destination_fee_lo == fee_amount_destination_ciphertext(encrypted_fee[1])
        destination_fee_hi == fee_amount_destination_ciphertext(encrypted_fee[2])
        netted == [counted.ct EXCEPT
                      !.pending_balance_lo = subtract(@, destination_fee_lo),
                      !.pending_balance_hi = subtract(@, destination_fee_hi)]
        withdraw_withheld_authority_fee_lo ==
            fee_amount_withdraw_withheld_authority_ciphertext(encrypted_fee[1])
        withdraw_withheld_authority_fee_hi ==
            fee_amount_withdraw_withheld_authority_ciphertext(encrypted_fee[2])
    IN
    IF acct.frozen THEN Result("AccountFrozen", accts)
    ELSE IF acct.mint # mint_key THEN Result("MintMismatch", accts)
    ELSE IF ~ct.initialized THEN Result("ExtensionNotFound", accts)
    ELSE IF valid_as_destination(ct) # "Ok" THEN Result(valid_as_destination(ct), accts)
    ELSE IF destination_encryption_pubkey # ct.elgamal_pubkey
    THEN Result("ConfidentialTransferElGamalPubkeyMismatch", accts)
    ELSE IF counted.err # "Ok"
    THEN Result(counted.err, [accts EXCEPT ![destination].confidential_transfer = added])
    ELSE IF encrypted_fee = << >>
    THEN Result("Ok", [accts EXCEPT ![destination].confidential_transfer = counted.ct])
    ELSE IF ~acct.confidential_transfer_fee_amount.initialized
    THEN Result("ExtensionNotFound",
                [accts EXCEPT ![destination].confidential_transfer = netted])
    ELSE Result("Ok",
                [accts EXCEPT
                    ![destination].confidential_transfer = netted,
                    ![destination].confidential_transfer_fee_amount.withheld_amount =
                        add_with_lo_hi(@, withdraw_withheld_authority_fee_lo,
                                       withdraw_withheld_authority_fee_hi)])

(* Variant: the fee is withheld without being taken from the credit *)
process_destination_for_transfer_fee_on_top(accts, destination, mint_key, destination_encryption_pubkey, destination_transfer_amount_lo, destination_transfer_amount_hi, encrypted_fee, previous_is_memo) ==
    LET acct == accts[destination]
        ct == acct.confidential_transfer
        added == [ct EXCEPT
                     !.pending_balance_lo = add(@, destination_transfer_amount_lo),
                     !.pending_balance_hi = add(@, destination_transfer_amount_hi)]
        counted == increment_pending_balance_credit_counter(added)
        destination_fee_lo == fee_amount_destination_ciphertext(encrypted_fee[1])
        destination_fee_hi == fee_amount_destination_ciphertext(encrypted_fee[2])
        netted == counted.ct
        withdraw_withheld_authority_fee_lo ==
            fee_amount_withdraw_withheld_authority_ciphertext(encrypted_fee[1])
        withdraw_withheld_authority_fee_hi ==
            fee_amount_withdraw_withheld_authority_ciphertext(encrypted_fee[2])
    IN
    IF acct.frozen THEN Result("AccountFrozen", accts)
    ELSE IF acct.mint # mint_key THEN Result("MintMismatch", accts)
    ELSE IF acct.memo_required /\ check_previous_sibling_instruction_is_memo(previous_is_memo) # "Ok"
    THEN Result(check_previous_sibling_instruction_is_memo(previous_is_memo), accts)
    ELSE IF ~ct.initialized THEN Result("ExtensionNotFound", accts)
    ELSE IF valid_as_destination(ct) # "Ok" THEN Result(valid_as_destination(ct), accts)
    ELSE IF destination_encryption_pubkey # ct.elgamal_pubkey
    THEN Result("ConfidentialTransferElGamalPubkeyMismatch", accts)
    ELSE IF counted.err # "Ok"
    THEN Result(counted.err, [accts EXCEPT ![destination].confidential_transfer = added])
    ELSE IF encrypted_fee = << >>
    THEN Result("Ok", [accts EXCEPT ![destination].confidential_transfer = counted.ct])
    ELSE IF ~acct.confidential_transfer_fee_amount.initialized
    THEN Result("ExtensionNotFound",
                [accts EXCEPT ![destination].confidential_transfer = netted])
    ELSE Result("Ok",
                [accts EXCEPT
                    ![destination].confidential_transfer = netted,
                    ![destination].confidential_transfer_fee_amount.withheld_amount =
                        add_with_lo_hi(@, withdraw_withheld_authority_fee_lo,
                                       withdraw_withheld_authority_fee_hi)])

process_destination_for_transfer(accts, destination, mint_key, destination_encryption_pubkey, destination_transfer_amount_lo, destination_transfer_amount_hi, encrypted_fee, previous_is_memo) ==
    LET acct == accts[destination]
        ct == acct.confidential_transfer
        added == [ct EXCEPT
                     !.pending_balance_lo = add(@, destination_transfer_amount_lo),
                     !.pending_balance_hi = add(@, destination_transfer_amount_hi)]
        counted == increment_pending_balance_credit_counter(added)
        destination_fee_lo == fee_amount_destination_ciphertext(encrypted_fee[1])
        destination_fee_hi == fee_amount_destination_ciphertext(encrypted_fee[2])
        netted == [counted.ct EXCEPT
                      !.pending_balance_lo = subtract(@, destination_fee_lo),
                      !.pending_balance_hi = subtract(@, destination_fee_hi)]
        withdraw_withheld_authority_fee_lo ==
            fee_amount_withdraw_withheld_authority_ciphertext(encrypted_fee[1])
        withdraw_withheld_authority_fee_hi ==
            fee_amount_withdraw_withheld_authority_ciphertext(encrypted_fee[2])
    IN
    IF acct.frozen THEN Result("AccountFrozen", accts)
    ELSE IF acct.mint # mint_key THEN Result("MintMismatch", accts)
    ELSE IF acct.memo_required /\ check_previous_sibling_instruction_is_memo(previous_is_memo) # "Ok"
    THEN Result(check_previous_sibling_instruction_is_memo(previous_is_memo), accts)
    ELSE IF ~ct.initialized THEN Result("ExtensionNotFound", accts)
    ELSE IF valid_as_destination(ct) # "Ok" THEN Result(valid_as_destination(ct), accts)
    ELSE IF destination_encryption_pubkey # ct.elgamal_pubkey
    THEN Result("ConfidentialTransferElGamalPubkeyMismatch", accts)
    ELSE IF counted.err # "Ok"
    THEN Result(counted.err, [accts EXCEPT ![destination].confidential_transfer = added])
    ELSE IF encrypted_fee = << >>
    THEN Result("Ok", [accts EXCEPT ![destination].confidential_transfer = counted.ct])
    ELSE IF ~acct.confidential_transfer_fee_amount.initialized
    THEN Result("ExtensionNotFound",
                [accts EXCEPT ![destination].confidential_transfer = netted])
    ELSE Result("Ok",
                [accts EXCEPT
                    ![destination].confidential_transfer = netted,
                    ![destination].confidential_transfer_fee_amount.withheld_amount =
                        add_with_lo_hi(@, withdraw_withheld_authority_fee_lo,
                                       withdraw_withheld_authority_fee_hi)])

(* Variant: a self-transfer is not exempted *)
fee_required_on_self(m, source, destination) ==
    m.transfer_fee.initialized

(* Variant: the mint's transfer-fee extension is not looked up *)
fee_required_any_mint(m, source, destination) ==
    source # destination

(* The fee decision of process_transfer *)
fee_required(m, source, destination) ==
    ~(~m.transfer_fee.initialized \/ source = destination)

(* Variant: the fee parameters the proof attests are not compared *)
process_transfer_any_fee(accts, m, current_epoch, source, destination, mint_key, authority_info, new_source_decryptable_available_balance, proof, proof_instruction_offset, previous_is_memo) ==
    IF m.non_transferable THEN Result("NonTransferable", accts)
    ELSE IF ~m.confidential_transfer.initialized THEN Result("ExtensionNotFound", accts)
    ELSE IF ~fee_required(m, source, destination)
    THEN
        LET resolved == verify_proof("Transfer", proof, proof_instruction_offset)
            proof_context == resolved.context
            after_source ==
                process_source_for_transfer(
                    accts, source, mint_key, authority_info,
                    proof_context.transfer_pubkeys.source,
                    transfer_amount_source_ciphertext(proof_context.ciphertext_lo),
                    transfer_amount_source_ciphertext(proof_context.ciphertext_hi),
                    proof_context.new_source_ciphertext,
                    new_source_decryptable_available_balance)
        IN
        IF resolved.err # "Ok" THEN Result(resolved.err, accts)
        ELSE IF ~equals(m.confidential_transfer.auditor_elgamal_pubkey,
                        proof_context.transfer_pubkeys.auditor)
        THEN Result("ConfidentialTransferElGamalPubkeyMismatch", accts)
        ELSE IF after_source.err # "Ok" THEN after_source
        ELSE process_destination_for_transfer(
                 after_source.accounts, destination, mint_key,
                 proof_context.transfer_pubkeys.destination,
                 transfer_amount_destination_ciphertext(proof_context.ciphertext_lo),
                 transfer_amount_destination_ciphertext(proof_context.ciphertext_hi),
                 << >>, previous_is_memo)
    ELSE
        LET resolved == verify_proof("TransferWithFee", proof, proof_instruction_offset)
            proof_context == resolved.context
            fee_parameters == get_epoch_fee(m.transfer_fee, current_epoch)
            after_source ==
                process_source_for_transfer(
                    accts, source, mint_key, authority_info,
                    proof_context.transfer_with_fee_pubkeys.source,
                    transfer_amount_source_ciphertext(proof_context.ciphertext_lo),
                    transfer_amount_source_ciphertext(proof_context.ciphertext_hi),
                    proof_context.new_source_ciphertext,
                    new_source_decryptable_available_balance)
        IN
        IF resolved.err # "Ok" THEN Result(resolved.err, accts)
        ELSE IF ~equals(m.confidential_transfer.auditor_elgamal_pubkey,
                        proof_context.transfer_with_fee_pubkeys.auditor)
        THEN Result("ConfidentialTransferElGamalPubkeyMismatch", accts)
        ELSE IF ~m.confidential_transfer_fee.initialized THEN Result("ExtensionNotFound", accts)
        ELSE IF proof_context.transfer_with_fee_pubkeys.withdraw_withheld_authority
                    # m.confidential_transfer_fee.withdraw_withheld_authority_elgamal_pubkey
        THEN Result("ConfidentialTransferElGamalPubkeyMismatch", accts)
        ELSE IF after_source.err # "Ok" THEN after_source
        ELSE process_destination_for_transfer(
                 after_source.accounts, destination, mint_key,
                 proof_context.transfer_with_fee_pubkeys.destination,
                 transfer_amount_destination_ciphertext(proof_context.ciphertext_lo),
                 transfer_amount_destination_ciphertext(proof_context.ciphertext_hi),
                 << proof_context.fee_ciphertext_lo, proof_context.fee_ciphertext_hi >>,
                 previous_is_memo)

(* Variant: the destination is credited before the source is debited *)
process_transfer_destination_first(accts, m, current_epoch, source, destination, mint_key, authority_info, new_source_decryptable_available_balance, proof, proof_instruction_offset, previous_is_memo) ==
    IF m.non_transferable THEN Result("NonTransferable", accts)
    ELSE IF ~m.confidential_transfer.initialized THEN Result("ExtensionNotFound", accts)
    ELSE IF ~fee_required(m, source, destination)
    THEN
        LET resolved == verify_proof("Transfer", proof, proof_instruction_offset)
            proof_context == resolved.context
            after_destination ==
                process_destination_for_transfer(
                    accts, destination, mint_key,
                    proof_context.transfer_pubkeys.destination,
                    transfer_amount_destination_ciphertext(proof_context.ciphertext_lo),
                    transfer_amount_destination_ciphertext(proof_context.ciphertext_hi),
                    << >>, previous_is_memo)
            after_source ==
                process_source_for_transfer(
                    after_destination.accounts, source, mint_key, authority_info,
                    proof_context.transfer_pubkeys.source,
                    transfer_amount_source_ciphertext(proof_context.ciphertext_lo),
                    transfer_amount_source_ciphertext(proof_context.ciphertext_hi),
                    proof_context.new_source_ciphertext,
                    new_source_decryptable_available_balance)
        IN
        IF resolved.err # "Ok" THEN Result(resolved.err, accts)
        ELSE IF ~equals(m.confidential_transfer.auditor_elgamal_pubkey,
                        proof_context.transfer_pubkeys.auditor)
        THEN Result("ConfidentialTransferElGamalPubkeyMismatch", accts)
        ELSE IF after_destination.err # "Ok" THEN after_destination
        ELSE after_source
    ELSE
        LET resolved == verify_proof("TransferWithFee", proof, proof_instruction_offset)
            proof_context == resolved.context
            fee_parameters == get_epoch_fee(m.transfer_fee, current_epoch)
            after_destination ==
                process_destination_for_transfer(
                    accts, destination, mint_key,
                    proof_context.transfer_with_fee_pubkeys.destination,
                    transfer_amount_destination_ciphertext(proof_context.ciphertext_lo),
                    transfer_amount_destination_ciphertext(proof_context.ciphertext_hi),
                    << proof_context.fee_ciphertext_lo, proof_context.fee_ciphertext_hi >>,
                    previous_is_memo)
            after_source ==
                process_source_for_transfer(
                    after_destination.accounts, source, mint_key, authority_info,
                    proof_context.transfer_with_fee_pubkeys.source,
                    transfer_amount_source_ciphertext(proof_context.ciphertext_lo),
                    transfer_amount_source_ciphertext(proof_context.ciphertext_hi),
                    proof_context.new_source_ciphertext,
                    new_source_decryptable_available_balance)
        IN
        IF resolved.err # "Ok" THEN Result(resolved.err, accts)
        ELSE IF ~equals(m.confidential_transfer.auditor_elgamal_pubkey,
                        proof_context.transfer_with_fee_pubkeys.auditor)
        THEN Result("ConfidentialTransferElGamalPubkeyMismatch", accts)
        ELSE IF ~m.confidential_transfer_fee.initialized THEN Result("ExtensionNotFound", accts)
        ELSE IF proof_context.transfer_with_fee_pubkeys.withdraw_withheld_authority
                    # m.confidential_transfer_fee.withdraw_withheld_authority_elgamal_pubkey
        THEN Result("ConfidentialTransferElGamalPubkeyMismatch", accts)
        ELSE IF \/ fee_parameters.maximum_fee # proof_context.fee_parameters.maximum_fee
                \/ fee_parameters.transfer_fee_basis_points
                       # proof_context.fee_parameters.fee_rate_basis_points
        THEN Result("FeeParametersMismatch", accts)
        ELSE IF after_destination.err # "Ok" THEN after_destination
        ELSE after_source

process_transfer(accts, m, current_epoch, source, destination, mint_key, authority_info, new_source_decryptable_available_balance, proof, proof_instruction_offset, previous_is_memo) ==
    IF m.non_transferable THEN Result("NonTransferable", accts)
    ELSE IF ~m.confidential_transfer.initialized THEN Result("ExtensionNotFound", accts)
    ELSE IF ~fee_required(m, source, destination)
    THEN
        LET resolved == verify_proof("Transfer", proof, proof_instruction_offset)
            proof_context == resolved.context
            after_source ==
                process_source_for_transfer(
                    accts, source, mint_key, authority_info,
                    proof_context.transfer_pubkeys.source,
                    transfer_amount_source_ciphertext(proof_context.ciphertext_lo),
                    transfer_amount_source_ciphertext(proof_context.ciphertext_hi),
                    proof_context.new_source_ciphertext,
                    new_source_decryptable_available_balance)
        IN
        IF resolved.err # "Ok" THEN Result(resolved.err, accts)
        ELSE IF ~equals(m.confidential_transfer.auditor_elgamal_pubkey,
                        proof_context.transfer_pubkeys.auditor)
        THEN Result("ConfidentialTransferElGamalPubkeyMismatch", accts)
        ELSE IF after_source.err # "Ok" THEN after_source
        ELSE process_destination_for_transfer(
                 after_source.accounts, destination, mint_key,
                 proof_context.transfer_pubkeys.destination,
                 transfer_amount_destination_ciphertext(proof_context.ciphertext_lo),
                 transfer_amount_destination_ciphertext(proof_context.ciphertext_hi),
                 << >>, previous_is_memo)
    ELSE
        LET resolved == verify_proof("TransferWithFee", proof, proof_instruction_offset)
            proof_context == resolved.context
            fee_parameters == get_epoch_fee(m.transfer_fee, current_epoch)
            after_source ==
                process_source_for_transfer(
                    accts, source, mint_key, authority_info,
                    proof_context.transfer_with_fee_pubkeys.source,
                    transfer_amount_source_ciphertext(proof_context.ciphertext_lo),
                    transfer_amount_source_ciphertext(proof_context.ciphertext_hi),
                    proof_context.new_source_ciphertext,
                    new_source_decryptable_available_balance)
        IN
        IF resolved.err # "Ok" THEN Result(resolved.err, accts)
        ELSE IF ~equals(m.confidential_transfer.auditor_elgamal_pubkey,
                        proof_context.transfer_with_fee_pubkeys.auditor)
        THEN Result("ConfidentialTransferElGamalPubkeyMismatch", accts)
        ELSE IF ~m.confidential_transfer_fee.initialized THEN Result("ExtensionNotFound", accts)
        ELSE IF proof_context.transfer_with_fee_pubkeys.withdraw_withheld_authority
                    # m.confidential_transfer_fee.withdraw_withheld_authority_elgamal_pubkey
        THEN Result("ConfidentialTransferElGamalPubkeyMismatch", accts)
        ELSE IF \/ fee_parameters.maximum_fee # proof_context.fee_parameters.maximum_fee
                \/ fee_parameters.transfer_fee_basis_points
                       # proof_context.fee_parameters.fee_rate_basis_points
        THEN Result("FeeParametersMismatch", accts)
        ELSE IF after_source.err # "Ok" THEN after_source
        ELSE process_destination_for_transfer(
                 after_source.accounts, destination, mint_key,
                 proof_context.transfer_with_fee_pubkeys.destination,
                 transfer_amount_destination_ciphertext(proof_context.ciphertext_lo),
                 transfer_amount_destination_ciphertext(proof_context.ciphertext_hi),
                 << proof_context.fee_ciphertext_lo, proof_context.fee_ciphertext_hi >>,
                 previous_is_memo)

(* Variant: the credit counter is not reset *)
process_apply_pending_balance_keeps_counter(accts, token, authority_info, expected_pending_balance_credit_counter, new_decryptable_available_balance) ==
    LET acct == accts[token]
        ct == acct.confidential_transfer
    IN
    IF validate_owner(acct.owner, authority_info) # "Ok"
    THEN Result(validate_owner(acct.owner, authority_info), accts)
    ELSE IF ~ct.initialized THEN Result("ExtensionNotFound", accts)
    ELSE Result("Ok",
                [accts EXCEPT ![token].confidential_transfer =
                    [ct EXCEPT
                        !.available_balance =
                            add_with_lo_hi(ct.available_balance,
                                           ct.pending_balance_lo, ct.pending_balance_hi),
                        !.actual_pending_balance_credit_counter =
                            ct.pending_balance_credit_counter,
                        !.expected_pending_balance_credit_counter =
                            expected_pending_balance_credit_counter,
                        !.decryptable_available_balance = new_decryptable_available_balance,
                        !.pending_balance_lo = Zeroed,
                        !.pending_balance_hi = Zeroed]])

(* Variant: an expected counter other than the current one is rejected *)
process_apply_pending_balance_strict(accts, token, authority_info, expected_pending_balance_credit_counter, new_decryptable_available_balance) ==
    LET acct == accts[token]
        ct == acct.confidential_transfer
    IN
    IF validate_owner(acct.owner, authority_info) # "Ok"
    THEN Result(validate_owner(acct.owner, authority_info), accts)
    ELSE IF ~ct.initialized THEN Result("ExtensionNotFound", accts)
    ELSE IF expected_pending_balance_credit_counter # ct.pending_balance_credit_counter
    THEN Result("InvalidInstructionData", accts)
    ELSE Result("Ok",
                [accts EXCEPT ![token].confidential_transfer =
                    [ct EXCEPT
                        !.available_balance =
                            add_with_lo_hi(ct.available_balance,
                                           ct.pending_balance_lo, ct.pending_balance_hi),
                        !.actual_pending_balance_credit_counter =
                            ct.pending_balance_credit_counter,
                        !.expected_pending_balance_credit_counter =
                            expected_pending_balance_credit_counter,
                        !.decryptable_available_balance = new_decryptable_available_balance,
                        !.pending_balance_credit_counter = 0,
                        !.pending_balance_lo = Zeroed,
                        !.pending_balance_hi = Zeroed]])

process_apply_pending_balance(accts, token, authority_info, expected_pending_balance_credit_counter, new_decryptable_available_balance) ==
    LET acct == accts[token]
        ct == acct.confidential_transfer
    IN
    IF validate_owner(acct.owner, authority_info) # "Ok"
    THEN Result(validate_owner(acct.owner, authority_info), accts)
    ELSE IF ~ct.initialized THEN Result("ExtensionNotFound", accts)
    ELSE Result("Ok",
                [accts EXCEPT ![token].confidential_transfer =
                    [ct EXCEPT
                        !.available_balance =
                            add_with_lo_hi(ct.available_balance,
                                           ct.pending_balance_lo, ct.pending_balance_hi),
                        !.actual_pending_balance_credit_counter =
                            ct.pending_balance_credit_counter,
                        !.expected_pending_balance_credit_counter =
                            expected_pending_balance_credit_counter,
                        !.decryptable_available_balance = new_decryptable_available_balance,
                        !.pending_balance_credit_counter = 0,
                        !.pending_balance_lo = Zeroed,
                        !.pending_balance_hi = Zeroed]])

(* Variant: switching one credit flag switches the other with it *)
process_allow_confidential_credits_both(accts, token, authority_info, allow_confidential_credits) ==
    IF validate_owner(accts[token].owner, authority_info) # "Ok"
    THEN Result(validate_owner(accts[token].owner, authority_info), accts)
    ELSE IF ~accts[token].confidential_transfer.initialized THEN Result("ExtensionNotFound", accts)
    ELSE Result("Ok", [accts EXCEPT ![token].confidential_transfer.allow_confidential_credits =
                                        allow_confidential_credits,
                                    ![token].confidential_transfer.allow_non_confidential_credits =
                                        allow_confidential_credits])

process_allow_confidential_credits(accts, token, authority_info, allow_confidential_credits) ==
    IF validate_owner(accts[token].owner, authority_info) # "Ok"
    THEN Result(validate_owner(accts[token].owner, authority_info), accts)
    ELSE IF ~accts[token].confidential_transfer.initialized THEN Result("ExtensionNotFound", accts)
    ELSE Result("Ok", [accts EXCEPT ![token].confidential_transfer.allow_confidential_credits =
                                        allow_confidential_credits])

process_allow_non_confidential_credits(accts, token, authority_info, allow_non_confidential_credits) ==
    IF validate_owner(accts[token].owner, authority_info) # "Ok"
    THEN Result(validate_owner(accts[token].owner, authority_info), accts)
    ELSE IF ~accts[token].confidential_transfer.initialized THEN Result("ExtensionNotFound", accts)
    ELSE Result("Ok", [accts EXCEPT
                          ![token].confidential_transfer.allow_non_confidential_credits =
                              allow_non_confidential_credits])

-----------------------------------------------------------------------------
(* Instruction inputs *)

MaxEpoch == 1
MaxSteps == 7
TEST_FEE_BASIS_POINTS == 250
TEST_MAXIMUM_FEE == 100
TEST_MAXIMUM_PENDING_BALANCE_CREDIT_COUNTER == 2
Randomness == {1}

(* The mint as created, before InitializeMint *)
TransferFeeConfig(present) ==
    [initialized |-> present,
     older_transfer_fee |->
         [epoch |-> 0, transfer_fee_basis_points |-> TEST_FEE_BASIS_POINTS,
          maximum_fee |-> TEST_MAXIMUM_FEE],
     newer_transfer_fee |->
         [epoch |-> 1, transfer_fee_basis_points |-> 2 * TEST_FEE_BASIS_POINTS,
          maximum_fee |-> TEST_MAXIMUM_FEE]]

NewMint(non_transferable, with_fee) ==
    [decimals |-> 2,
     non_transferable |-> non_transferable,
     transfer_fee |-> TransferFeeConfig(with_fee),
     confidential_transfer |->
         [initialized |-> FALSE, authority |-> None,
          auto_approve_new_accounts |-> FALSE, auditor_elgamal_pubkey |-> None],
     confidential_transfer_fee |->
         [initialized |-> with_fee,
          withdraw_withheld_authority_elgamal_pubkey |-> IF with_fee THEN "KW" ELSE None]]

(* A scenario fixes the sets the clients' arguments are drawn from:        *)
(*   mint      the mint as created                                         *)
(*   setup     the arguments InitializeMint is called with                 *)
(*   accounts  the token accounts the instructions address                 *)
(*   supply    the plaintext tokens account A starts with                  *)
(*   amounts   the amounts of deposits, withdrawals and transfers          *)
(*   admin     whether the mint authority and the owners change settings   *)
(*   faults    whether callers also send calls that do not fit: a wrong    *)
(*             signer, wrong decimals, a proof of another kind or for      *)
(*             other keys, an amount other than the proof's                *)
(*   clock     whether the epoch advances                                  *)
(*   toggles   the accounts whose owners switch their credit flags         *)
(*   memo      the accounts that require a memo on incoming transfers      *)
(*   budget    what the scenario's runs are longer or shorter by           *)
(*   strangers whether instructions also name an authority that does not   *)
(*             sign or is not the owner                                    *)
(*   misfits   whether fee-bearing transfers also come with proofs made    *)
(*             for other fee parameters or other keys                      *)
(*   freeze    the accounts the freeze authority freezes and thaws         *)
(*   maximum   the maximum_pending_balance_credit_counter the accounts are *)
(*             configured with                                             *)
MintSetup(authority, auto, auditor) ==
    [authority |-> authority, auto_approve_new_accounts |-> auto,
     auditor_elgamal_pubkey |-> auditor]

Scenario(name, m, setup, accts, supply, amounts, admin, faults, clock) ==
    [name |-> name, mint |-> m, setup |-> setup, accounts |-> accts, supply |-> supply,
     amounts |-> amounts, admin |-> admin, faults |-> faults, clock |-> clock,
     toggles |-> IF admin THEN accts ELSE {}, memo |-> {}, budget |-> 0,
     strangers |-> faults, misfits |-> faults, freeze |-> {},
     maximum |-> TEST_MAXIMUM_PENDING_BALANCE_CREDIT_COUNTER]

Scenarios ==
    { Scenario("flow", NewMint(FALSE, FALSE), { MintSetup("authority", TRUE, "KA") },
               {"A", "B"}, Pow2(LoBits) + 2, {0, 1, Pow2(LoBits) + 1}, FALSE, FALSE, FALSE),
      Scenario("limits", NewMint(FALSE, FALSE),
               { MintSetup(None, TRUE, None), MintSetup(None, FALSE, None) },
               {"A"}, MAXIMUM_DEPOSIT_TRANSFER_AMOUNT + 1,
               {MAXIMUM_DEPOSIT_TRANSFER_AMOUNT, MAXIMUM_DEPOSIT_TRANSFER_AMOUNT + 1},
               FALSE, FALSE, FALSE),
      Scenario("fee", NewMint(FALSE, TRUE), { MintSetup("authority", TRUE, "KA") },
               {"A", "B"}, 100, {0, 100}, FALSE, FALSE, FALSE),
      [Scenario("epochs", NewMint(FALSE, TRUE), { MintSetup("authority", TRUE, "KA") },
                {"A", "B"}, 100, {100}, FALSE, FALSE, TRUE) EXCEPT !.misfits = TRUE],
      [Scenario("dust", NewMint(FALSE, TRUE), { MintSetup("authority", TRUE, "KA") },
                {"A", "B"}, 1, {1}, FALSE, FALSE, FALSE) EXCEPT !.budget = 1],
      [Scenario("gates", NewMint(FALSE, FALSE), { MintSetup("authority", TRUE, "KA") },
                {"A", "B"}, 1, {1}, FALSE, FALSE, FALSE)
          EXCEPT !.toggles = {"B"}, !.strangers = TRUE],
      [Scenario("memo", NewMint(FALSE, FALSE), { MintSetup("authority", TRUE, "KA") },
                {"A", "B"}, 1, {1}, FALSE, FALSE, FALSE)
          EXCEPT !.memo = {"B"}, !.budget = -1],
      [Scenario("memo_fee", NewMint(FALSE, TRUE), { MintSetup("authority", TRUE, "KA") },
                {"A", "B"}, 100, {100}, FALSE, FALSE, FALSE)
          EXCEPT !.memo = {"B"}, !.budget = -1],
      [Scenario("misfits", NewMint(FALSE, TRUE), { MintSetup("authority", TRUE, "KA") },
                {"A", "B"}, 100, {100}, FALSE, FALSE, FALSE)
          EXCEPT !.misfits = TRUE, !.budget = -1],
      [Scenario("borrow", NewMint(FALSE, TRUE), { MintSetup("authority", TRUE, "KA") },
                {"A", "B"}, Pow2(LoBits), {Pow2(LoBits)}, FALSE, FALSE, FALSE)
          EXCEPT !.budget = -1],
      [Scenario("approval", NewMint(FALSE, FALSE), { MintSetup("authority", FALSE, "KA") },
                {"A", "B"}, 1, {1}, FALSE, FALSE, FALSE)
          EXCEPT !.budget = -1],
      [Scenario("frozen", NewMint(FALSE, TRUE), { MintSetup("authority", TRUE, "KA") },
                {"A", "B"}, 100, {100}, FALSE, FALSE, FALSE)
          EXCEPT !.freeze = {"A", "B"}, !.budget = -1],
      [Scenario("closed", NewMint(FALSE, FALSE), { MintSetup("authority", TRUE, "KA") },
                {"A", "B"}, 1, {1}, FALSE, FALSE, FALSE)
          EXCEPT !.toggles = {"A"}],
      [Scenario("no_credit", NewMint(FALSE, FALSE), { MintSetup("authority", TRUE, "KA") },
                {"A", "B"}, 1, {0, 1}, FALSE, FALSE, FALSE)
          EXCEPT !.maximum = 0],
      Scenario("admin", NewMint(FALSE, FALSE),
               { MintSetup("authority", FALSE, "KA"), MintSetup(None, FALSE, None) },
               {"A"}, 1, {0, 1}, TRUE, FALSE, FALSE),
      Scenario("faults", NewMint(FALSE, FALSE), { MintSetup("authority", TRUE, "KA") },
               {"A"}, 1, {0, 1}, FALSE, TRUE, FALSE),
      Scenario("non_transferable", NewMint(TRUE, FALSE),
               { MintSetup("authority", TRUE, "KA") },
               {"A"}, 1, {0, 1}, FALSE, FALSE, FALSE) }

Names == { x.name : x \in Scenarios }
Scn == CHOOSE x \in Scenarios : x.name = scenario
Amounts == Scn.amounts
Tokens == Scn.accounts

Signer(a) == [key |-> OwnerOf(a), is_signer |-> TRUE]
Authorities(a) ==
    IF Scn.strangers
    THEN { Signer(a),
           [key |-> OwnerOf(a), is_signer |-> FALSE],
           [key |-> "mallory", is_signer |-> TRUE] }
    ELSE { Signer(a) }
MintAuthority == [key |-> "authority", is_signer |-> TRUE]
MintAuthorities ==
    { MintAuthority,
      [key |-> "authority", is_signer |-> FALSE],
      [key |-> "mallory", is_signer |-> TRUE] }
Offsets == IF Scn.faults THEN {0, 1} ELSE {1}
Memos == IF Scn.faults \/ Scn.memo # {} THEN BOOLEAN ELSE {FALSE}

Configured(a) == accounts[a].confidential_transfer.initialized
Balance(a) == accounts[a].confidential_transfer.available_balance
AuditorKey == mint.confidential_transfer.auditor_elgamal_pubkey
WithdrawAuthorityKey == mint.confidential_transfer_fee.withdraw_withheld_authority_elgamal_pubkey
CurrentFee ==
    LET f == get_epoch_fee(mint.transfer_fee, epoch)
    IN  [basis_points |-> f.transfer_fee_basis_points, maximum_fee |-> f.maximum_fee]

(* The proofs a client can have verified.  The facility only yields a      *)
(* context for a statement that is true: the zero-balance ciphertext       *)
(* decrypts to 0, the withdrawn or transferred amount does not exceed what *)
(* the balance decrypts to, the transfer amount has at most 48 bits.       *)
PubkeyValidityProofs(k) ==
    { Proof("PubkeyValidity", PubkeyValidityProofContext(k), Zeroed, 0) }

ZeroBalanceProofs(k, balances) ==
    { Proof("ZeroBalance", ZeroBalanceProofContext(k, b), b, 0) :
        b \in { c \in balances : Decrypt(c, k) = 0 } }

WithdrawProofs(k, balances, amounts) ==
    UNION { { Proof("Withdraw", WithdrawProofContext(k, b, n), b, n) :
                n \in { x \in amounts : x <= Decrypt(b, k) /\ x <= U64_MAX } } :
            b \in balances }

TransferAmounts(src, b, amounts) ==
    { x \in amounts : x <= Decrypt(b, src) /\ x <= MAXIMUM_DEPOSIT_TRANSFER_AMOUNT }

TransferProofs(src, dst, aud, balances, amounts) ==
    UNION { { Proof("Transfer", TransferProofContext(src, dst, aud, b, n, r), b, n) :
                n \in TransferAmounts(src, b, amounts), r \in Randomness } :
            b \in balances }

TransferWithFeeProofs(src, dst, aud, wwa, balances, amounts, fee) ==
    UNION { { Proof("TransferWithFee",
                    TransferWithFeeProofContext(src, dst, aud, wwa, b, n, fee, r), b, n) :
                n \in TransferAmounts(src, b, amounts), r \in Randomness } :
            b \in balances }

(* Balances a proof for account a may have been generated against: the     *)
(* current one, and ones an intervening instruction has since replaced.    *)
Current(a) == { Balance(a) }
Snapshots(a) == { Balance(a), add_to(Balance(a), 1), Zeroed }

(* One call of an instruction: the caller-chosen arguments.  hint is the   *)
(* decryptable balance the caller supplies, an opaque value; only          *)
(* ConfigureAccount, Withdraw, Transfer and ApplyPendingBalance carry one. *)
Call(authority, amount, decimals, proof, offset) ==
    [authority |-> authority, amount |-> amount, decimals |-> decimals,
     proof |-> proof, offset |-> offset, previous_is_memo |-> FALSE,
     hint |-> None, setting |-> None]

NoProof == Proof("None", NoContext, Zeroed, 0)
NoCall == Call([key |-> None, is_signer |-> FALSE], 0, 0, NoProof, 0)

(* A call of a mint instruction: the authority account and the settings    *)
(* the instruction data carries.                                           *)
MintCall(authority, setting) ==
    [Call(authority, 0, 0, NoProof, 0) EXCEPT !.setting = setting]

DepositCalls(a) ==
    { Call(Signer(a), n, mint.decimals, NoProof, 0) : n \in Amounts }
    \cup { Call(au, 0, d, NoProof, 0) :
             au \in Authorities(a),
             d \in IF Scn.faults THEN {mint.decimals, mint.decimals + 1}
                   ELSE {mint.decimals} }

WithdrawCalls(a) ==
    { Call(Signer(a), p.amount, mint.decimals, p, o) :
        p \in WithdrawProofs(KeyOf(a), Snapshots(a), Amounts), o \in {0, 1} }
    \cup IF ~Scn.faults THEN {}
         ELSE { Call(Signer(a), n, mint.decimals, p, 1) :
                  p \in WithdrawProofs(KeyOf(a), Current(a), Amounts), n \in Amounts }
              \cup { Call(au, 0, d, p, 1) :
                       p \in WithdrawProofs(KeyOf(a), Current(a), {0}),
                       au \in Authorities(a), d \in {mint.decimals, mint.decimals + 1} }
              \cup { Call(Signer(a), 0, mint.decimals, p, o) :
                       p \in ZeroBalanceProofs(KeyOf(a), Current(a))
                             \cup PubkeyValidityProofs(KeyOf(a))
                             \cup WithdrawProofs("KA", {Zeroed}, {0}),
                       o \in Offsets }

EmptyCalls(a) ==
    { Call(au, 0, mint.decimals, p, 1) :
        p \in ZeroBalanceProofs(KeyOf(a), Snapshots(a)), au \in Authorities(a) }
    \cup IF ~Scn.faults THEN {}
         ELSE { Call(Signer(a), 0, mint.decimals, p, o) :
                  p \in PubkeyValidityProofs(KeyOf(a))
                        \cup WithdrawProofs(KeyOf(a), Current(a), {0})
                        \cup ZeroBalanceProofs("KA", {Zeroed}),
                  o \in Offsets }

ConfigureCalls(a) ==
    { [c EXCEPT !.hint = "zero"] :
        c \in { Call(au, Scn.maximum, mint.decimals, p, 1) :
                   au \in Authorities(a), p \in PubkeyValidityProofs(KeyOf(a)) }
              \cup IF ~Scn.faults THEN {}
                   ELSE { Call(Signer(a), Scn.maximum, mint.decimals, p, o) :
                            p \in ZeroBalanceProofs(KeyOf(a), {Zeroed})
                                  \cup PubkeyValidityProofs(KeyOf(a)),
                            o \in Offsets } }

(* ApplyPendingBalance calls: the amount is the credit counter the caller  *)
(* expects.                                                                *)
ApplyCalls(a) ==
    { Call(au, n, mint.decimals, NoProof, 0) :
        au \in Authorities(a),
        n \in { accounts[a].confidential_transfer.pending_balance_credit_counter }
              \cup IF Scn.faults
                   THEN { accounts[a].confidential_transfer.pending_balance_credit_counter + 1 }
                   ELSE {} }

(* Fee-bearing transfer proofs from a to d that do not fit the mint or the *)
(* accounts: made for the fee of another epoch or a higher maximum fee,    *)
(* for another auditor or withdraw-withheld authority, or for another      *)
(* source or destination key.                                              *)
MisfitFeeProofs(a, d) ==
    IF ~mint.transfer_fee.initialized THEN {}
    ELSE LET other == get_epoch_fee(mint.transfer_fee, 1 - epoch)
             other_fee == [basis_points |-> other.transfer_fee_basis_points,
                           maximum_fee |-> other.maximum_fee]
             keys == { << KeyOf(a), KeyOf(d), "KW", WithdrawAuthorityKey >>,
                       << KeyOf(a), KeyOf(d), AuditorKey, "KA" >>,
                       << KeyOf(a), "KA", AuditorKey, WithdrawAuthorityKey >> }
             higher_maximum == [CurrentFee EXCEPT !.maximum_fee = @ + 1]
         IN  UNION { TransferWithFeeProofs(KeyOf(a), KeyOf(d), AuditorKey,
                                           WithdrawAuthorityKey, Current(a), Amounts, f) :
                       f \in {other_fee, higher_maximum} }
             \cup UNION { TransferWithFeeProofs(k[1], k[2], k[3], k[4], Current(a), Amounts,
                                                CurrentFee) : k \in keys }
             \cup TransferWithFeeProofs("KA", KeyOf(d), AuditorKey, WithdrawAuthorityKey,
                                        {Zeroed}, {0}, CurrentFee)

(* Transfer calls from a to d: a proof of either kind for the current or   *)
(* an older balance, and proofs that do not fit.                           *)
TransferCalls(a, d) ==
    { Call(Signer(a), p.amount, mint.decimals, p, 1) :
        p \in TransferProofs(KeyOf(a), KeyOf(d), AuditorKey, Snapshots(a), Amounts)
              \cup (IF mint.transfer_fee.initialized
                    THEN TransferWithFeeProofs(KeyOf(a), KeyOf(d), AuditorKey,
                                               WithdrawAuthorityKey, Snapshots(a), Amounts,
                                               CurrentFee)
                    ELSE {}) }
    \cup (IF Scn.misfits
          THEN { Call(Signer(a), p.amount, mint.decimals, p, 1) : p \in MisfitFeeProofs(a, d) }
          ELSE {})
    \cup IF ~Scn.faults THEN {}
         ELSE { Call(au, 0, mint.decimals, p, 1) :
                  p \in TransferProofs(KeyOf(a), KeyOf(d), AuditorKey, Current(a), {0}),
                  au \in Authorities(a) }
              \cup { Call(Signer(a), 0, mint.decimals, p, o) :
                       p \in WithdrawProofs(KeyOf(a), Current(a), {0})
                             \cup TransferProofs(KeyOf(a), KeyOf(d), "KW", Current(a), {0})
                             \cup TransferProofs(KeyOf(a), "KA", AuditorKey, Current(a), {0})
                             \cup TransferProofs("KA", KeyOf(d), AuditorKey, {Zeroed}, {0}),
                       o \in Offsets }

-----------------------------------------------------------------------------
(* The state machine *)

UnconfiguredAccount ==
    [initialized |-> FALSE,
     approved |-> FALSE,
     elgamal_pubkey |-> None,
     maximum_pending_balance_credit_counter |-> 0,
     pending_balance_lo |-> Zeroed,
     pending_balance_hi |-> Zeroed,
     available_balance |-> Zeroed,
     decryptable_available_balance |-> None,
     allow_confidential_credits |-> FALSE,
     pending_balance_credit_counter |-> 0,
     expected_pending_balance_credit_counter |-> 0,
     actual_pending_balance_credit_counter |-> 0,
     allow_non_confidential_credits |-> FALSE]

NewAccount(a, amount) ==
    [mint |-> TheMint, owner |-> OwnerOf(a), amount |-> amount, frozen |-> FALSE,
     is_native |-> FALSE, memo_required |-> a \in Scn.memo,
     confidential_transfer |-> UnconfiguredAccount,
     confidential_transfer_fee_amount |-> [initialized |-> FALSE, withheld_amount |-> Zeroed]]

NoInstruction ==
    [op |-> "None", err |-> "Ok", token |-> None, destination |-> None,
     call |-> NoCall, dirty |-> FALSE]

Init ==
    /\ scenario \in Names
    /\ accounts = [a \in Accts |-> NewAccount(a, IF a = "A" THEN Scn.supply ELSE 0)]
    /\ mint = Scn.mint
    /\ epoch = 0
    /\ last = NoInstruction
    /\ steps = 0
    /\ trip = [phase |-> "none", amount |-> 0, credited |-> FALSE]

(* Variant: the host keeps what a failed handler wrote *)
Committed_partial(res) == res.accounts

(* The host commits the account data a handler wrote only if the handler   *)
(* returned Ok; on an error it discards every write.                       *)
Committed(res) == IF res.err = "Ok" THEN res.accounts ELSE accounts

(* A client stops at the first instruction that fails: the host has        *)
(* discarded that instruction's writes, so what could follow it is what    *)
(* can follow the state before it.                                         *)
Running == last.err = "Ok"

(* A run is cut off after MaxSteps successful instructions; the dust      *)
(* fixture, whose accounts hold one token, runs one instruction longer,    *)
(* the fixtures made for one gate of the transfer one instruction shorter. *)
Budget == MaxSteps + Scn.budget
Counted(err) ==
    /\ err = "Ok" => steps < Budget
    /\ steps' = IF err = "Ok" THEN steps + 1 ELSE steps

(* The round trip of account A since its configuration: the first deposit, *)
(* the apply after it, the withdrawal of the deposited amount after that,  *)
(* and the empty_account after that; credited records a further credit     *)
(* (a deposit, or a transfer with A as destination) on the way.            *)
Holder == "A"

Tracked(op, token, destination, call) ==
    LET credit == \/ op = "Deposit" /\ token = Holder
                  \/ op = "Transfer" /\ destination = Holder
        on_holder == token = Holder
    IN  CASE trip.phase = "none" /\ op = "ConfigureAccount" /\ on_holder ->
                 [trip EXCEPT !.phase = "fresh"]
          [] trip.phase = "fresh" /\ op = "Deposit" /\ on_holder ->
                 [trip EXCEPT !.phase = "deposited", !.amount = call.amount]
          [] trip.phase = "fresh" /\ op = "Transfer" /\ credit ->
                 [trip EXCEPT !.phase = "off"]
          [] trip.phase = "deposited" /\ op = "ApplyPendingBalance" /\ on_holder ->
                 [trip EXCEPT !.phase = "applied"]
          [] trip.phase = "applied" /\ op = "Withdraw" /\ on_holder
                 /\ call.amount = trip.amount ->
                 [trip EXCEPT !.phase = "withdrawn"]
          [] trip.phase = "withdrawn" /\ op = "EmptyAccount" /\ on_holder ->
                 [trip EXCEPT !.phase = "emptied"]
          [] trip.phase \in {"deposited", "applied", "withdrawn"} /\ credit ->
                 [trip EXCEPT !.credited = TRUE]
          [] OTHER -> trip

Executed(op, token, destination, call, res) ==
    /\ Counted(res.err)
    /\ trip' = IF res.err = "Ok" THEN Tracked(op, token, destination, call) ELSE trip
    /\ accounts' = Committed(res)
    /\ last' = [op |-> op, err |-> res.err, token |-> token, destination |-> destination,
                call |-> call, dirty |-> res.accounts # accounts]
    /\ UNCHANGED << mint, epoch, scenario >>

ExecutedOnMint(op, call, res) ==
    /\ Counted(res.err)
    /\ mint' = IF res.err = "Ok" THEN res.mint ELSE mint
    /\ last' = [NoInstruction EXCEPT !.op = op, !.err = res.err, !.call = call,
                                     !.dirty = res.mint # mint]
    /\ UNCHANGED << accounts, epoch, scenario, trip >>

InitializeMint ==
    /\ Running
    /\ \E c \in Scn.setup :
           \E res \in { process_initialize_mint(mint, c.authority, c.auto_approve_new_accounts,
                                                  c.auditor_elgamal_pubkey) } :
               ExecutedOnMint("InitializeMint", MintCall(NoCall.authority, c), res)

UpdateMint ==
    /\ Running
    /\ Scn.admin
    /\ \E authority \in MintAuthorities, auto \in BOOLEAN, auditor \in {None, "KA"} :
           \E res \in { process_update_mint(mint, authority, auto, auditor) } :
               ExecutedOnMint("UpdateMint",
                              MintCall(authority, MintSetup(None, auto, auditor)), res)

ConfigureAccount ==
    /\ Running
    /\ \E a \in Tokens : \E c \in ConfigureCalls(a) :
           \E res \in { process_configure_account(accounts, mint, a, TheMint, c.authority,
                                              c.hint, c.amount, c.proof, c.offset) } :
               Executed("ConfigureAccount", a, None, c, res)

ApproveAccount ==
    /\ Running
    /\ \E a \in Tokens, authority \in MintAuthorities :
           \E res \in { process_approve_account(accounts, mint, a, authority) } :
               Executed("ApproveAccount", a, None, Call(authority, 0, 0, NoProof, 0), res)

EmptyAccount ==
    /\ Running
    /\ \E a \in Tokens : \E c \in EmptyCalls(a) :
           \E res \in { process_empty_account(accounts, a, c.authority, c.proof, c.offset) } :
               Executed("EmptyAccount", a, None, c, res)

Deposit ==
    /\ Running
    /\ \E a \in Tokens : \E c \in DepositCalls(a) :
           \E res \in { process_deposit(accounts, mint, a, TheMint, c.authority,
                                    c.amount, c.decimals) } :
               Executed("Deposit", a, None, c, res)

Withdraw ==
    /\ Running
    /\ \E a \in Tokens : \E c \in { [x EXCEPT !.hint = "new"] : x \in WithdrawCalls(a) } :
           \E res \in { process_withdraw(accounts, mint, a, TheMint, c.authority, c.amount,
                                     c.decimals, c.hint, c.proof, c.offset) } :
               Executed("Withdraw", a, None, c, res)

Transfer ==
    /\ Running
    /\ \E a \in Tokens, d \in Accts, memo \in Memos :
         \E c \in { [x EXCEPT !.hint = "new"] : x \in TransferCalls(a, d) } :
           \E res \in { process_transfer(accounts, mint, epoch, a, d, TheMint, c.authority,
                                         c.hint, c.proof, c.offset, memo) } :
               Executed("Transfer", a, d, [c EXCEPT !.previous_is_memo = memo], res)

ApplyPendingBalance ==
    /\ Running
    /\ \E a \in Tokens : \E c \in { [x EXCEPT !.hint = "new"] : x \in ApplyCalls(a) } :
           \E res \in { process_apply_pending_balance(accounts, a, c.authority,
                                                      c.amount, c.hint) } :
               Executed("ApplyPendingBalance", a, None, c, res)

AllowConfidentialCredits ==
    /\ Running
    /\ \E a \in Scn.toggles : \E authority \in Authorities(a), allow \in BOOLEAN :
           \E res \in { process_allow_confidential_credits(accounts, a, authority, allow) } :
               Executed(IF allow THEN "EnableConfidentialCredits"
                    ELSE "DisableConfidentialCredits", a, None,
                        Call(authority, 0, 0, NoProof, 0), res)

AllowNonConfidentialCredits ==
    /\ Running
    /\ \E a \in Scn.toggles : \E authority \in Authorities(a), allow \in BOOLEAN :
           \E res \in { process_allow_non_confidential_credits(accounts, a, authority, allow) } :
               Executed(IF allow THEN "EnableNonConfidentialCredits"
                    ELSE "DisableNonConfidentialCredits", a, None,
                        Call(authority, 0, 0, NoProof, 0), res)

(* The mint's freeze authority freezes or thaws a token account between    *)
(* two instructions of the extension.                                      *)
FreezeAccount ==
    /\ Running
    /\ \E a \in Scn.freeze, freeze \in BOOLEAN :
           /\ accounts[a].frozen # freeze
           /\ accounts' = [accounts EXCEPT ![a].frozen = freeze]
           /\ last' = [NoInstruction EXCEPT
                          !.op = IF freeze THEN "FreezeAccount" ELSE "ThawAccount",
                          !.token = a]
    /\ UNCHANGED << mint, epoch, scenario, steps, trip >>

(* The clock moves to the next epoch *)
AdvanceEpoch ==
    /\ Scn.clock
    /\ Running
    /\ epoch < MaxEpoch
    /\ epoch' = epoch + 1
    /\ UNCHANGED << steps, trip >>
    /\ last' = [NoInstruction EXCEPT !.op = "AdvanceEpoch"]
    /\ UNCHANGED << accounts, mint, scenario >>

Next ==
    \/ AdvanceEpoch
    \/ FreezeAccount
    \/ InitializeMint
    \/ UpdateMint
    \/ ConfigureAccount
    \/ ApproveAccount
    \/ EmptyAccount
    \/ Deposit
    \/ Withdraw
    \/ Transfer
    \/ ApplyPendingBalance
    \/ AllowConfidentialCredits
    \/ AllowNonConfidentialCredits

Spec == Init /\ [][Next]_vars

TypeOK ==
    /\ epoch \in 0 .. MaxEpoch
    /\ \A a \in Accts : accounts[a].amount \in 0 .. U64_MAX

-----------------------------------------------------------------------------
(* Properties *)

Ext(accts, a) == accts[a].confidential_transfer
Available(accts, a) == Decrypt(Ext(accts, a).available_balance, Ext(accts, a).elgamal_pubkey)
PendingLo(accts, a) == Decrypt(Ext(accts, a).pending_balance_lo, Ext(accts, a).elgamal_pubkey)
PendingHi(accts, a) == Decrypt(Ext(accts, a).pending_balance_hi, Ext(accts, a).elgamal_pubkey)
Pending(accts, a) == PendingLo(accts, a) + Pow2(LoBits) * PendingHi(accts, a)
AllZero(accts, a) ==
    /\ Ext(accts, a).pending_balance_lo = Zeroed
    /\ Ext(accts, a).pending_balance_hi = Zeroed
    /\ Ext(accts, a).available_balance = Zeroed
Counter(accts, a) == Ext(accts, a).pending_balance_credit_counter
Cap(accts, a) == Ext(accts, a).maximum_pending_balance_credit_counter

(* The step is the instruction op, and it returned err *)
Step(op) == last'.op = op
Ok == last'.err = "Ok"
Failed(err) == last'.err = err
Unchanged == accounts' = accounts /\ mint' = mint

(* C1: on the freshly configured, approved account a deposit of a, which   *)
(* is at most MAXIMUM_DEPOSIT_TRANSFER_AMOUNT, followed by                 *)
(* apply_pending_balance with no other credit between them leaves the      *)
(* available balance decrypting to a, which is pending_lo + 2^16 *         *)
(* pending_hi before the apply, both pending balances zero, and the        *)
(* decryptable available balance the hint given to apply_pending_balance.  *)
C1_DepositThenApply ==
    [][ ( /\ trip.phase = "deposited"
          /\ ~trip.credited
          /\ Step("ApplyPendingBalance")
          /\ last'.token = Holder
          /\ Ok )
        => /\ trip.amount <= MAXIMUM_DEPOSIT_TRANSFER_AMOUNT
           /\ Pending(accounts, Holder) = trip.amount
           /\ Available(accounts', Holder) = trip.amount
           /\ Ext(accounts', Holder).pending_balance_lo = Zeroed
           /\ Ext(accounts', Holder).pending_balance_hi = Zeroed
           /\ Ext(accounts', Holder).decryptable_available_balance = last'.call.hint ]_vars

C1_Witness ==
    /\ last.op = "ApplyPendingBalance"
    /\ last.err = "Ok"
    /\ trip.phase = "applied"
    /\ ~trip.credited
    /\ trip.amount = MAXIMUM_DEPOSIT_TRANSFER_AMOUNT
    /\ Available(accounts, Holder) = MAXIMUM_DEPOSIT_TRANSFER_AMOUNT

(* The deposit of the step passes every check process_deposit makes before *)
(* it looks at the size of the amount.                                     *)
ReachesAmountBound ==
    LET c == last'.call
        acct == accounts[last'.token]
    IN  /\ c.decimals = mint.decimals
        /\ ~mint.non_transferable
        /\ c.authority.key = acct.owner
        /\ c.authority.is_signer
        /\ ~acct.frozen
        /\ acct.mint = TheMint
        /\ acct.amount >= c.amount
        /\ acct.confidential_transfer.initialized
        /\ acct.confidential_transfer.approved
        /\ acct.confidential_transfer.allow_confidential_credits

(* C2 as stated: a deposit of more than MAXIMUM_DEPOSIT_TRANSFER_AMOUNT to *)
(* a configured account fails with MaximumDepositAmountExceeded whatever   *)
(* the plaintext balance and the approval and credit flags, and changes    *)
(* nothing.                                                                *)
C2_AsStated ==
    [][ ( /\ Step("Deposit")
          /\ last'.call.amount > MAXIMUM_DEPOSIT_TRANSFER_AMOUNT
          /\ Ext(accounts, last'.token).initialized )
        => Failed("MaximumDepositAmountExceeded") /\ Unchanged ]_vars

(* C2: a deposit of more than MAXIMUM_DEPOSIT_TRANSFER_AMOUNT always fails *)
(* and changes nothing; it fails with MaximumDepositAmountExceeded exactly *)
(* when it passes the checks made before the amount is looked at, among    *)
(* them that the plaintext balance covers the amount and that the account  *)
(* is approved and allows confidential credits.                            *)
C2_DepositAboveBound ==
    [][ (Step("Deposit") /\ last'.call.amount > MAXIMUM_DEPOSIT_TRANSFER_AMOUNT)
        => /\ ~Ok
           /\ Unchanged
           /\ Failed("MaximumDepositAmountExceeded") <=> ReachesAmountBound ]_vars

C2_Witness ==
    /\ last.op = "Deposit"
    /\ last.call.amount > MAXIMUM_DEPOSIT_TRANSFER_AMOUNT
    /\ last.err = "MaximumDepositAmountExceeded"
    /\ last.dirty

(* The account the step credits, if it is a deposit or a transfer *)
Credited == IF last'.op = "Deposit" THEN last'.token ELSE last'.destination
Credits == last'.op \in {"Deposit", "Transfer"}

(* What the step's instruction returns when the credited account's counter *)
(* is at 0 instead.                                                        *)
WithRoom ==
    LET c == last'.call
        roomy == [accounts EXCEPT
                     ![Credited].confidential_transfer.pending_balance_credit_counter = 0]
    IN  IF last'.op = "Deposit"
        THEN process_deposit(roomy, mint, last'.token, TheMint, c.authority,
                             c.amount, c.decimals)
        ELSE process_transfer(roomy, mint, epoch, last'.token, last'.destination, TheMint,
                              c.authority, c.hint, c.proof, c.offset, c.previous_is_memo)

(* C3: with the credit counter of an account at its maximum, a deposit to  *)
(* it or a transfer to it, a self-transfer included, fails and changes     *)
(* nothing, and the error is MaximumPendingBalanceCreditCounterExceeded    *)
(* when the instruction is one that succeeds with room under the maximum;  *)
(* a credit that succeeds raises the counter by one, to at most the        *)
(* maximum, so that with a maximum of 2 two credits succeed between        *)
(* applies and the third fails.                                            *)
C3_CreditAtCap ==
    [][ (Credits /\ Ext(accounts, Credited).initialized)
        => /\ Counter(accounts, Credited) = Cap(accounts, Credited)
              => /\ ~Ok
                 /\ Unchanged
                 /\ WithRoom.err = "Ok"
                    => Failed("MaximumPendingBalanceCreditCounterExceeded")
           /\ Ok => /\ Counter(accounts', Credited) = Counter(accounts, Credited) + 1
                    /\ Counter(accounts', Credited) <= Cap(accounts, Credited) ]_vars

C3_Witness ==
    /\ last.op = "Transfer"
    /\ last.token = last.destination
    /\ last.err = "MaximumPendingBalanceCreditCounterExceeded"
    /\ Counter(accounts, last.token) = TEST_MAXIMUM_PENDING_BALANCE_CREDIT_COUNTER
    /\ Cap(accounts, last.token) = TEST_MAXIMUM_PENDING_BALANCE_CREDIT_COUNTER

(* C4: in every reachable state the credit counter of a configured         *)
(* account is at most the account's maximum.                               *)
C4_CounterWithinCap ==
    \A a \in Accts :
        Ext(accounts, a).initialized => Counter(accounts, a) <= Cap(accounts, a)

C4_Witness ==
    /\ last.op = "Deposit"
    /\ last.err = "Ok"
    /\ Ext(accounts, last.token).initialized
    /\ Counter(accounts, last.token) = Cap(accounts, last.token)

WithdrawExpected ==
    LET balance == Ext(accounts, last'.token).available_balance
    IN  IF last'.call.amount > 0 THEN subtract_from(balance, last'.call.amount) ELSE balance

WithdrawMatches ==
    /\ last'.call.proof.proof_type = "Withdraw"
    /\ WithdrawExpected = last'.call.proof.proof_context.final_ciphertext

(* What the withdraw of the step returns when the proof's final ciphertext *)
(* is the expected one.                                                    *)
WithMatchingProof ==
    LET c == last'.call
    IN  process_withdraw(accounts, mint, last'.token, TheMint, c.authority, c.amount,
                         c.decimals, c.hint,
                         [c.proof EXCEPT !.proof_context.final_ciphertext = WithdrawExpected],
                         c.offset)

(* C6: a withdraw succeeds only if the available balance less the amount   *)
(* is the proof's final ciphertext; when it is not, the withdraw fails,    *)
(* with ConfidentialTransferBalanceMismatch if nothing else is wrong with  *)
(* it.  On success the available balance is the final ciphertext, the      *)
(* decryptable balance is the caller's hint, the plaintext amount has      *)
(* grown by the amount and the pending balances and the credit counters    *)
(* are as before.                                                          *)
C6_WithdrawMatchesProof ==
    [][ Step("Withdraw")
        => LET t == last'.token
               c == last'.call
               before == Ext(accounts, t)
               after == Ext(accounts', t)
           IN  /\ Ok => /\ WithdrawMatches
                        /\ after.available_balance = c.proof.proof_context.final_ciphertext
                        /\ after.decryptable_available_balance = c.hint
                        /\ accounts'[t].amount = accounts[t].amount + c.amount
                        /\ after.pending_balance_lo = before.pending_balance_lo
                        /\ after.pending_balance_hi = before.pending_balance_hi
                        /\ after.pending_balance_credit_counter
                               = before.pending_balance_credit_counter
                        /\ after.expected_pending_balance_credit_counter
                               = before.expected_pending_balance_credit_counter
                        /\ after.actual_pending_balance_credit_counter
                               = before.actual_pending_balance_credit_counter
               /\ (c.proof.proof_type = "Withdraw" /\ ~WithdrawMatches)
                  => /\ ~Ok
                     /\ WithMatchingProof.err \in {"Ok", "Overflow"}
                        => Failed("ConfidentialTransferBalanceMismatch") ]_vars

C6_Witness ==
    /\ last.op = "Withdraw"
    /\ last.err = "Ok"
    /\ last.call.amount > 0
    /\ Ext(accounts, last.token).available_balance
           = last.call.proof.proof_context.final_ciphertext
    /\ Ext(accounts, last.token).decryptable_available_balance = last.call.hint

(* The proof of the step's withdraw or transfer, generated anew for the    *)
(* source's current available balance.                                     *)
FreshProof ==
    LET p == last'.call.proof
        balance == Ext(accounts, last'.token).available_balance
    IN  IF p.proof_type = "Withdraw"
        THEN [p EXCEPT !.proof_context.final_ciphertext = subtract_from(balance, p.amount)]
        ELSE [p EXCEPT !.proof_context.new_source_ciphertext =
                 subtract_with_lo_hi(
                     balance,
                     transfer_amount_source_ciphertext(p.proof_context.ciphertext_lo),
                     transfer_amount_source_ciphertext(p.proof_context.ciphertext_hi))]

WithFreshProof ==
    LET c == last'.call
    IN  IF last'.op = "Withdraw"
        THEN process_withdraw(accounts, mint, last'.token, TheMint, c.authority, c.amount,
                              c.decimals, c.hint, FreshProof, c.offset)
        ELSE process_transfer(accounts, mint, epoch, last'.token, last'.destination, TheMint,
                              c.authority, c.hint, FreshProof, c.offset, c.previous_is_memo)

(* The step is a withdraw or a transfer with a proof of a fitting kind,    *)
(* for the amount of the call, generated for a balance that is not the     *)
(* source's available balance now.                                         *)
StaleProof ==
    /\ \/ Step("Withdraw") /\ last'.call.proof.proof_type = "Withdraw"
       \/ Step("Transfer") /\ last'.call.proof.proof_type \in {"Transfer", "TransferWithFee"}
    /\ last'.call.amount = last'.call.proof.amount
    /\ last'.call.proof.snapshot # Ext(accounts, last'.token).available_balance

(* C7: a withdraw or a transfer whose proof was generated for an available *)
(* balance other than the source's available balance at the time it        *)
(* executes fails and changes nothing, and fails with                      *)
(* ConfidentialTransferBalanceMismatch if it succeeds with a proof         *)
(* generated for the current balance.                                      *)
C7_StaleProofRejected ==
    [][ StaleProof
        => /\ ~Ok
           /\ Unchanged
           /\ WithFreshProof.err = "Ok"
              => Failed("ConfidentialTransferBalanceMismatch") ]_vars

C7_Witness ==
    /\ last.op = "Transfer"
    /\ last.err = "ConfidentialTransferBalanceMismatch"
    /\ last.call.proof.snapshot = Zeroed
    /\ Ext(accounts, last.token).available_balance # Zeroed
    /\ Available(accounts, last.token) > 0

(* The empty_account of the step carries a zero-balance proof for the      *)
(* account's key and current available balance, signed by the owner.       *)
ProperEmpty ==
    LET c == last'.call
        t == last'.token
    IN  /\ c.proof.proof_type = "ZeroBalance"
        /\ c.proof.proof_context.pubkey = Ext(accounts, t).elgamal_pubkey
        /\ c.proof.proof_context.ciphertext = Ext(accounts, t).available_balance
        /\ c.authority.key = accounts[t].owner
        /\ c.authority.is_signer

EmptyEndsTrip ==
    /\ trip.phase = "withdrawn"
    /\ Step("EmptyAccount")
    /\ last'.token = Holder
    /\ ProperEmpty

(* C8 as stated: after deposit(a), apply_pending_balance, withdraw(a) on   *)
(* the freshly configured account, a > 0, empty_account succeeds with all  *)
(* balance ciphertexts zero if and only if no other credit to the account  *)
(* occurred in between.                                                    *)
C8_AsStated ==
    [][ (EmptyEndsTrip /\ trip.amount > 0)
        => ((Ok /\ AllZero(accounts', Holder)) <=> ~trip.credited) ]_vars

(* C8: after deposit(a), apply_pending_balance, withdraw(a) on the freshly *)
(* configured account, empty_account succeeds with all balance ciphertexts *)
(* zero if no other credit to the account occurred in between; after       *)
(* another credit it succeeds exactly when both pending balance            *)
(* ciphertexts are zero, as they are after a credit of amount zero by      *)
(* deposit or a credit applied before the withdrawal.                      *)
C8_RoundTrip ==
    [][ EmptyEndsTrip
        => /\ ~trip.credited => Ok
           /\ Ok => AllZero(accounts', Holder)
           /\ Ok <=> /\ Ext(accounts, Holder).pending_balance_lo = Zeroed
                     /\ Ext(accounts, Holder).pending_balance_hi = Zeroed ]_vars

C8_Witness ==
    /\ trip.phase = "emptied"
    /\ ~trip.credited
    /\ trip.amount > 0
    /\ last.op = "EmptyAccount"
    /\ last.err = "Ok"
    /\ AllZero(accounts, Holder)

Withheld(accts, a) == accts[a].confidential_transfer_fee_amount

(* C9: a transfer from an account to itself of the amount its available    *)
(* balance decrypts to leaves available + pending_lo + 2^16 * pending_hi   *)
(* as it was, the available balance at 0 and the pending balance greater   *)
(* by the amount, and withholds no fee, whatever the mint's transfer-fee   *)
(* configuration.                                                          *)
C9_SelfTransfer ==
    [][ ( /\ Step("Transfer")
          /\ Ok
          /\ last'.token = last'.destination
          /\ last'.call.proof.amount = Available(accounts, last'.token) )
        => LET t == last'.token
           IN  /\ Available(accounts', t) = 0
               /\ Pending(accounts', t) = Pending(accounts, t) + last'.call.proof.amount
               /\ Available(accounts', t) + Pending(accounts', t)
                      = Available(accounts, t) + Pending(accounts, t)
               /\ Withheld(accounts', t) = Withheld(accounts, t)
               /\ accounts'[t].amount = accounts[t].amount ]_vars

C9_Witness ==
    /\ last.op = "Transfer"
    /\ last.err = "Ok"
    /\ last.token = last.destination
    /\ mint.transfer_fee.initialized
    /\ last.call.proof.amount = TEST_MAXIMUM_FEE
    /\ Available(accounts, last.token) = 0
    /\ Pending(accounts, last.token) = TEST_MAXIMUM_FEE
    /\ Withheld(accounts, last.token).withheld_amount = Zeroed

(* The fee decision as the specification words it *)
FeeDue == mint.transfer_fee.initialized /\ last'.token # last'.destination
ContextResolved == last'.err \notin {"InvalidInstructionData", "InvalidArgument"}

(* C10: a transfer on a transferable mint with the confidential-transfer   *)
(* extension resolves its proof as a transfer-with-fee context exactly     *)
(* when the mint has the transfer-fee extension and source and destination *)
(* differ, and as a plain transfer context otherwise; a plain transfer     *)
(* credits the whole amount and withholds nothing.                         *)
C10_FeeDecision ==
    [][ ( /\ Step("Transfer")
          /\ ~mint.non_transferable
          /\ mint.confidential_transfer.initialized )
        => LET d == last'.destination
               p == last'.call.proof
           IN  /\ ContextResolved
                  <=> p.proof_type = IF FeeDue THEN "TransferWithFee" ELSE "Transfer"
               /\ (Ok /\ ~FeeDue)
                  => /\ Withheld(accounts', d) = Withheld(accounts, d)
                     /\ Ext(accounts', d).pending_balance_lo
                            = add(Ext(accounts, d).pending_balance_lo,
                                  transfer_amount_destination_ciphertext(
                                      p.proof_context.ciphertext_lo))
                     /\ Ext(accounts', d).pending_balance_hi
                            = add(Ext(accounts, d).pending_balance_hi,
                                  transfer_amount_destination_ciphertext(
                                      p.proof_context.ciphertext_hi)) ]_vars

C10_Witness ==
    /\ last.op = "Transfer"
    /\ last.err = "Ok"
    /\ last.token # last.destination
    /\ mint.transfer_fee.initialized
    /\ last.call.proof.proof_type = "TransferWithFee"
    /\ last.call.proof.amount > 0
    /\ Withheld(accounts, last.destination).withheld_amount # Zeroed

-----------------------------------------------------------------------------
(* The amount and the fee a transfer proof attests: the values its lo and  *)
(* hi commitments open to.  The withheld fee is read with the withdraw     *)
(* withheld authority's key.                                               *)
AttestedAmount(p) ==
    p.proof_context.ciphertext_lo[1].v + Pow2(LoBits) * p.proof_context.ciphertext_hi[1].v
AttestedFee(p) ==
    p.proof_context.fee_ciphertext_lo[1].v
        + Pow2(LoBits) * p.proof_context.fee_ciphertext_hi[1].v
WithheldAmount(accts, a) ==
    Decrypt(Withheld(accts, a).withheld_amount, WithdrawAuthorityKey)

(* C11: a successful transfer on the fee path of amount a with attested    *)
(* fee f raises the destination's pending balance by a - f and its         *)
(* withheld fee by f and lowers the source's available balance by a; at    *)
(* 250 basis points with maximum fee 100 and a = 100 the fee is 3, so a    *)
(* destination with nothing pending or withheld ends with 97 and 3.        *)
C11_TransferWithFee ==
    [][ (Step("Transfer") /\ Ok /\ FeeDue)
        => LET s == last'.token
               d == last'.destination
               p == last'.call.proof
               a == AttestedAmount(p)
               f == AttestedFee(p)
           IN  /\ Pending(accounts', d) = Pending(accounts, d) + a - f
               /\ WithheldAmount(accounts', d) = WithheldAmount(accounts, d) + f
               /\ Available(accounts', s) = Available(accounts, s) - a
               /\ Counter(accounts', d) = Counter(accounts, d) + 1
               /\ ( /\ p.proof_context.fee_parameters.fee_rate_basis_points
                          = TEST_FEE_BASIS_POINTS
                    /\ p.proof_context.fee_parameters.maximum_fee = TEST_MAXIMUM_FEE
                    /\ a = 100 )
                  => /\ f = 3
                     /\ (Pending(accounts, d) = 0 /\ WithheldAmount(accounts, d) = 0)
                        => /\ Pending(accounts', d) = 97
                           /\ WithheldAmount(accounts', d) = 3 ]_vars

C11_Witness ==
    /\ last.op = "Transfer"
    /\ last.err = "Ok"
    /\ last.token # last.destination
    /\ last.call.proof.proof_type = "TransferWithFee"
    /\ AttestedAmount(last.call.proof) = 100
    /\ AttestedFee(last.call.proof) = 3
    /\ Pending(accounts, last.destination) = 97
    /\ WithheldAmount(accounts, last.destination) = 3
    /\ Available(accounts, last.token) = 0

(* C12: a successful transfer off the fee path between two distinct        *)
(* accounts sets the source's available balance to the proof's new source  *)
(* ciphertext, which decrypts to the old balance less the amount, and its  *)
(* decryptable balance to the caller's; adds the lo and hi parts of the    *)
(* amount to the destination's pending balances and 1 to its credit        *)
(* counter; and leaves the source's pending balances and counters and the  *)
(* destination's available and decryptable balances as they were.          *)
C12_TransferWithoutFee ==
    [][ (Step("Transfer") /\ Ok /\ ~FeeDue /\ last'.token # last'.destination)
        => LET s == last'.token
               d == last'.destination
               c == last'.call
               lo == c.proof.proof_context.ciphertext_lo
               hi == c.proof.proof_context.ciphertext_hi
           IN  /\ Ext(accounts', s).available_balance
                      = c.proof.proof_context.new_source_ciphertext
               /\ Available(accounts', s) = Available(accounts, s) - AttestedAmount(c.proof)
               /\ Ext(accounts', s).decryptable_available_balance = c.hint
               /\ PendingLo(accounts', d) = PendingLo(accounts, d) + lo[1].v
               /\ PendingHi(accounts', d) = PendingHi(accounts, d) + hi[1].v
               /\ Counter(accounts', d) = Counter(accounts, d) + 1
               /\ [Ext(accounts', s) EXCEPT !.available_balance = Zeroed,
                                            !.decryptable_available_balance = None]
                      = [Ext(accounts, s) EXCEPT !.available_balance = Zeroed,
                                                !.decryptable_available_balance = None]
               /\ Ext(accounts', d).available_balance = Ext(accounts, d).available_balance
               /\ Ext(accounts', d).decryptable_available_balance
                      = Ext(accounts, d).decryptable_available_balance
               /\ Ext(accounts', d).expected_pending_balance_credit_counter
                      = Ext(accounts, d).expected_pending_balance_credit_counter
               /\ Ext(accounts', d).actual_pending_balance_credit_counter
                      = Ext(accounts, d).actual_pending_balance_credit_counter ]_vars

C12_Witness ==
    /\ last.op = "Transfer"
    /\ last.err = "Ok"
    /\ last.token # last.destination
    /\ last.call.proof.proof_type = "Transfer"
    /\ AttestedAmount(last.call.proof) = Pow2(LoBits) + 1
    /\ PendingLo(accounts, last.destination) = 1
    /\ PendingHi(accounts, last.destination) = 1
    /\ Counter(accounts, last.destination) = 1
    /\ Available(accounts, last.token) = 0
    /\ Ext(accounts, last.destination).decryptable_available_balance = "zero"

(* Some pending balance of the account the step empties is not the zero    *)
(* ciphertext; some balance of it, the withheld fee included, is not.      *)
PendingLeft ==
    \/ Ext(accounts, last'.token).pending_balance_lo # Zeroed
    \/ Ext(accounts, last'.token).pending_balance_hi # Zeroed
BalanceLeft ==
    \/ PendingLeft
    \/ Ext(accounts, last'.token).available_balance # Zeroed
    \/ Withheld(accounts, last'.token).withheld_amount # Zeroed

-----------------------------------------------------------------------------
(* The instructions that take a proof, the kind of proof each expects, and *)
(* a step that gets as far as resolving its proof from a context state     *)
(* account (offset 0).                                                     *)
ProofOps == {"ConfigureAccount", "EmptyAccount", "Withdraw", "Transfer"}
ExpectedKind ==
    CASE last'.op = "ConfigureAccount" -> "PubkeyValidity"
      [] last'.op = "EmptyAccount" -> "ZeroBalance"
      [] last'.op = "Withdraw" -> "Withdraw"
      [] last'.op = "Transfer" -> IF FeeDue THEN "TransferWithFee" ELSE "Transfer"
      [] OTHER -> "None"
FromRecord ==
    /\ last'.op \in ProofOps
    /\ last'.call.offset = 0
    /\ last'.call.proof.proof_type \in ProofTypes
    /\ last'.op = "Transfer"
           => ~mint.non_transferable /\ mint.confidential_transfer.initialized
WrongKind == FromRecord /\ last'.call.proof.proof_type # ExpectedKind
SameSize ==
    ContextStateSize(last'.call.proof.proof_type) = ContextStateSize(ExpectedKind)

(* C14 as stated: configure_account, empty_account, withdraw and transfer, *)
(* given at offset 0 a context state account of another kind than the one  *)
(* expected, fail with InvalidArgument and change nothing.                 *)
C14_AsStated ==
    [][ WrongKind => Failed("InvalidArgument") /\ Unchanged ]_vars

(* C14: configure_account, empty_account, withdraw and transfer, given at  *)
(* offset 0 a context state account of another kind than the one expected, *)
(* fail and change nothing; the error is InvalidArgument when that kind's  *)
(* record differs in size from the expected kind's and                     *)
(* InvalidInstructionData when it has the same size.                       *)
C14_WrongKind ==
    [][ WrongKind
        => /\ ~Ok
           /\ Unchanged
           /\ last'.err \in {"InvalidArgument", "InvalidInstructionData"}
           /\ Failed("InvalidArgument") <=> ~SameSize ]_vars

C14_Witness ==
    /\ last.op = "Transfer"
    /\ last.call.offset = 0
    /\ last.call.proof.proof_type = "Withdraw"
    /\ last.err = "InvalidArgument"
    /\ Ext(accounts, last.token).initialized

(* C15 as stated: at offset 0 a context state account whose tag is not the *)
(* expected kind fails the resolution with ProofTypeMismatch; one whose    *)
(* tag matches yields the context it holds.                                *)
C15_AsStated ==
    [][ FromRecord
        => LET p == last'.call.proof
           IN  /\ p.proof_type # ExpectedKind => Failed("ProofTypeMismatch")
               /\ p.proof_type = ExpectedKind
                      => verify_proof(ExpectedKind, p, 0)
                             = [err |-> "Ok", context |-> p.proof_context] ]_vars

(* C15: at offset 0 a context state account of the expected size whose tag *)
(* is not the expected kind fails the instruction with                     *)
(* InvalidInstructionData and changes nothing; one whose tag matches       *)
(* yields the context it holds, which is the one the handler then uses.    *)
C15_TagChecked ==
    [][ FromRecord
        => LET p == last'.call.proof
           IN  /\ (p.proof_type # ExpectedKind /\ SameSize)
                      => Failed("InvalidInstructionData") /\ Unchanged
               /\ p.proof_type = ExpectedKind
                      => /\ verify_proof(ExpectedKind, p, 0)
                                = [err |-> "Ok", context |-> p.proof_context]
                         /\ ~Failed("InvalidArgument")
                         /\ (Ok /\ Step("ConfigureAccount"))
                                => Ext(accounts', last'.token).elgamal_pubkey
                                       = p.proof_context.pubkey ]_vars

C15_Witness ==
    /\ last.op = "EmptyAccount"
    /\ last.call.offset = 0
    /\ last.call.proof.proof_type = "Withdraw"
    /\ last.err = "InvalidInstructionData"
    /\ Ext(accounts, last.token).initialized

-----------------------------------------------------------------------------
(* The step credits account a: it is a deposit to a or a transfer to a *)
CreditTo(a) ==
    \/ Step("Deposit") /\ last'.token = a
    \/ Step("Transfer") /\ last'.destination = a

(* C16: an account's pending_balance_credit_counter changes in two ways    *)
(* only: a successful deposit or incoming transfer adds exactly 1, and a   *)
(* successful apply_pending_balance sets it to 0; every successful one of  *)
(* these does so, and no other step changes it.                            *)
C16_CounterSteps ==
    [][ \A a \in Accts :
          /\ (Ok /\ CreditTo(a)) => Counter(accounts', a) = Counter(accounts, a) + 1
          /\ (Ok /\ Step("ApplyPendingBalance") /\ last'.token = a)
                 => Counter(accounts', a) = 0
          /\ Counter(accounts', a) # Counter(accounts, a)
                 => /\ Ok
                    /\ \/ CreditTo(a)
                       \/ Step("ApplyPendingBalance") /\ last'.token = a ]_vars

C16_Witness ==
    /\ last.op = "ApplyPendingBalance"
    /\ last.err = "Ok"
    /\ Counter(accounts, last.token) = 0
    /\ Ext(accounts, last.token).actual_pending_balance_credit_counter
           = TEST_MAXIMUM_PENDING_BALANCE_CREDIT_COUNTER

(* The owner of the step's account signs the step *)
BySigningOwner ==
    /\ last'.call.authority.key = accounts[last'.token].owner
    /\ last'.call.authority.is_signer

(* C17: apply_pending_balance signed by the owner of a configured account  *)
(* succeeds whatever expected counter the caller gives, equal to the       *)
(* current credit counter or not; it adds pending_lo + 2^16 * pending_hi   *)
(* to the available balance, records the old credit counter as the actual  *)
(* counter and the caller's values as the expected counter and the         *)
(* decryptable balance, and zeroes both pending balances and the credit    *)
(* counter.                                                                *)
C17_ApplyPendingBalance ==
    [][ ( /\ Step("ApplyPendingBalance")
          /\ BySigningOwner
          /\ Ext(accounts, last'.token).initialized )
        => LET t == last'.token
               before == Ext(accounts, t)
               after == Ext(accounts', t)
           IN  /\ Ok
               /\ after.available_balance
                      = add_with_lo_hi(before.available_balance,
                                       before.pending_balance_lo, before.pending_balance_hi)
               /\ Available(accounts', t) = Available(accounts, t) + Pending(accounts, t)
               /\ after.actual_pending_balance_credit_counter
                      = before.pending_balance_credit_counter
               /\ after.expected_pending_balance_credit_counter = last'.call.amount
               /\ after.decryptable_available_balance = last'.call.hint
               /\ after.pending_balance_lo = Zeroed
               /\ after.pending_balance_hi = Zeroed
               /\ after.pending_balance_credit_counter = 0 ]_vars

C17_Witness ==
    /\ last.op = "ApplyPendingBalance"
    /\ last.err = "Ok"
    /\ Ext(accounts, last.token).expected_pending_balance_credit_counter
           # Ext(accounts, last.token).actual_pending_balance_credit_counter
    /\ Ext(accounts, last.token).actual_pending_balance_credit_counter > 0
    /\ Available(accounts, last.token) = 1

-----------------------------------------------------------------------------
(* C18: a successful configure_account leaves the account's pending and    *)
(* available balances the zero ciphertext, approved as the mint's          *)
(* auto_approve_new_accounts is at that moment, the ElGamal key the one    *)
(* the proof attests, both credit flags true, the pending, expected and    *)
(* actual credit counters 0, the maximum counter and the decryptable       *)
(* balance as supplied, and, on a mint with a transfer-fee configuration,  *)
(* a withheld fee that is the zero ciphertext.                             *)
C18_ConfigureAccount ==
    [][ (Step("ConfigureAccount") /\ Ok)
        => LET t == last'.token
               c == last'.call
           IN  /\ Ext(accounts', t)
                      = [initialized |-> TRUE,
                         approved |-> mint.confidential_transfer.auto_approve_new_accounts,
                         elgamal_pubkey |-> c.proof.proof_context.pubkey,
                         maximum_pending_balance_credit_counter |-> c.amount,
                         pending_balance_lo |-> Zeroed,
                         pending_balance_hi |-> Zeroed,
                         available_balance |-> Zeroed,
                         decryptable_available_balance |-> c.hint,
                         allow_confidential_credits |-> TRUE,
                         pending_balance_credit_counter |-> 0,
                         expected_pending_balance_credit_counter |-> 0,
                         actual_pending_balance_credit_counter |-> 0,
                         allow_non_confidential_credits |-> TRUE]
               /\ c.proof.proof_type = "PubkeyValidity"
               /\ mint.transfer_fee.initialized
                      => Withheld(accounts', t) = [initialized |-> TRUE,
                                                   withheld_amount |-> Zeroed]
               /\ accounts'[t].amount = accounts[t].amount ]_vars

C18_Witness ==
    /\ last.op = "ConfigureAccount"
    /\ last.err = "Ok"
    /\ ~mint.confidential_transfer.auto_approve_new_accounts
    /\ ~Ext(accounts, last.token).approved
    /\ Ext(accounts, last.token).elgamal_pubkey = KeyOf(last.token)
    /\ Ext(accounts, last.token).decryptable_available_balance = "zero"
    /\ Ext(accounts, last.token).maximum_pending_balance_credit_counter
           = TEST_MAXIMUM_PENDING_BALANCE_CREDIT_COUNTER

(* C19: configure_account on an account already configured fails and      *)
(* changes nothing, whatever the account holds; given the owner's          *)
(* signature and a proof of the right kind the error is                    *)
(* ExtensionAlreadyInitialized.                                            *)
C19_Reconfigure ==
    [][ (Step("ConfigureAccount") /\ Ext(accounts, last'.token).initialized)
        => /\ ~Ok
           /\ Unchanged
           /\ ( /\ last'.call.proof.proof_type = "PubkeyValidity"
                /\ BySigningOwner
                /\ mint.confidential_transfer.initialized )
              => Failed("ExtensionAlreadyInitialized") ]_vars

C19_Witness ==
    /\ last.op = "ConfigureAccount"
    /\ last.err = "ExtensionAlreadyInitialized"
    /\ Available(accounts, last.token) > 0
    /\ Counter(accounts, last.token) > 0

(* C20: update_mint fails with NoAuthorityExists when the mint stores no   *)
(* authority and with OwnerMismatch when a signer other than the stored    *)
(* authority calls it, and then changes nothing; it succeeds exactly for   *)
(* the stored authority signing, and then replaces                         *)
(* auto_approve_new_accounts and auditor_elgamal_pubkey by the values      *)
(* given and leaves the authority and every account as they were.  No      *)
(* step changes the authority, and none changes the settings of a mint     *)
(* that stores no authority.                                               *)
C20_UpdateMint ==
    [][ LET ct == mint.confidential_transfer
            c == last'.call
        IN  /\ (Step("UpdateMint") /\ ct.initialized)
                   => /\ ct.authority = None
                             => Failed("NoAuthorityExists") /\ Unchanged
                      /\ ( /\ ct.authority # None
                           /\ c.authority.is_signer
                           /\ c.authority.key # ct.authority )
                             => Failed("OwnerMismatch") /\ Unchanged
                      /\ Ok <=> /\ ct.authority # None
                                /\ c.authority.is_signer
                                /\ c.authority.key = ct.authority
                      /\ Ok => /\ mint' = [mint EXCEPT
                                              !.confidential_transfer.auto_approve_new_accounts
                                                  = c.setting.auto_approve_new_accounts,
                                              !.confidential_transfer.auditor_elgamal_pubkey
                                                  = c.setting.auditor_elgamal_pubkey]
                               /\ accounts' = accounts
            /\ ct.initialized
                   => mint'.confidential_transfer.authority = ct.authority
            /\ (ct.initialized /\ ct.authority = None)
                   => mint'.confidential_transfer = ct ]_vars

C20_Witness ==
    /\ last.op = "UpdateMint"
    /\ last.err = "Ok"
    /\ mint.confidential_transfer.authority = "authority"
    /\ mint.confidential_transfer.auto_approve_new_accounts
    /\ mint.confidential_transfer.auditor_elgamal_pubkey = None
    /\ \E a \in Accts : Ext(accounts, a).initialized /\ ~Ext(accounts, a).approved

(* C21: approve_account on a mint that stores no authority fails with      *)
(* NoAuthorityExists; when the authority account does not sign or is not   *)
(* the stored authority it fails with MissingRequiredSignature; in both    *)
(* cases nothing changes.  Otherwise, on a configured account, it succeeds *)
(* and changes nothing but approved, which becomes true.                   *)
C21_ApproveAccount ==
    [][ (Step("ApproveAccount") /\ mint.confidential_transfer.initialized)
        => LET ByMintAuthority ==
                   /\ last'.call.authority.is_signer
                   /\ last'.call.authority.key = mint.confidential_transfer.authority
           IN
           /\ mint.confidential_transfer.authority = None
                  => Failed("NoAuthorityExists") /\ Unchanged
           /\ (mint.confidential_transfer.authority # None /\ ~ByMintAuthority)
                  => Failed("MissingRequiredSignature") /\ Unchanged
           /\ ( /\ mint.confidential_transfer.authority # None
                /\ ByMintAuthority
                /\ Ext(accounts, last'.token).initialized )
                  => /\ Ok
                     /\ accounts' = [accounts EXCEPT
                                       ![last'.token].confidential_transfer.approved = TRUE]
                     /\ mint' = mint ]_vars

C21_Witness ==
    /\ last.op = "ApproveAccount"
    /\ last.err = "Ok"
    /\ Ext(accounts, last.token).approved
    /\ ~mint.confidential_transfer.auto_approve_new_accounts
    /\ ~Ext(accounts, last.token).allow_non_confidential_credits
    /\ Ext(accounts, last.token).elgamal_pubkey = KeyOf(last.token)

(* The deposits into a that the gate rejects and nothing else stands      *)
(* against: the owner signs, the decimals are the mint's, the amount is    *)
(* within the account's tokens and the deposit bound, the credit counter   *)
(* is below its maximum.                                                   *)
RejectedDeposits(accts, a) ==
    { c \in DepositCalls(a) :
        /\ process_deposit(accts, mint, a, TheMint, c.authority, c.amount, c.decimals).err
               = "ConfidentialTransferDepositsAndTransfersDisabled"
        /\ validate_owner(accts[a].owner, c.authority) = "Ok"
        /\ c.decimals = mint.decimals
        /\ ~mint.non_transferable
        /\ c.amount <= accts[a].amount
        /\ c.amount <= MAXIMUM_DEPOSIT_TRANSFER_AMOUNT
        /\ Counter(accts, a) < Cap(accts, a) }

(* C22: while a configured account's allow_confidential_credits is off,    *)
(* which it is from a successful disable to the next successful enable,    *)
(* or while the account is not approved, every deposit into it and every   *)
(* transfer to it fails and changes nothing, with                          *)
(* ConfidentialTransferDepositsAndTransfersDisabled when nothing else is   *)
(* wrong with the instruction; the enable makes every deposit succeed that *)
(* only the flag had rejected.                                             *)
C22_CreditGate ==
    [][ LET c == last'.call
            GateClosed ==
                /\ Ext(accounts, Credited).initialized
                /\ ~( /\ Ext(accounts, Credited).approved
                      /\ Ext(accounts, Credited).allow_confidential_credits )
            GateOpened ==
                [accounts EXCEPT
                    ![Credited].confidential_transfer.approved = TRUE,
                    ![Credited].confidential_transfer.allow_confidential_credits = TRUE]
            PassesOpenGate ==
                IF last'.op = "Deposit"
                THEN process_deposit(GateOpened, mint, last'.token, TheMint, c.authority,
                                     c.amount, c.decimals).err = "Ok"
                ELSE /\ Ext(accounts, last'.token).approved
                     /\ process_transfer(GateOpened, mint, epoch, last'.token,
                                         last'.destination, TheMint, c.authority, c.hint,
                                         c.proof, c.offset, c.previous_is_memo).err = "Ok"
        IN
        /\ (Credits /\ GateClosed)
            => /\ ~Ok
               /\ Unchanged
               /\ PassesOpenGate
                      => Failed("ConfidentialTransferDepositsAndTransfersDisabled")
        /\ \A a \in Accts :
              /\ ( /\ Ext(accounts, a).initialized
                   /\ Ext(accounts, a).allow_confidential_credits
                   /\ ~Ext(accounts', a).allow_confidential_credits )
                     => Step("DisableConfidentialCredits") /\ Ok /\ last'.token = a
              /\ ( /\ Ext(accounts, a).initialized
                   /\ ~Ext(accounts, a).allow_confidential_credits
                   /\ Ext(accounts', a).allow_confidential_credits )
                     => Step("EnableConfidentialCredits") /\ Ok /\ last'.token = a
        /\ (Step("EnableConfidentialCredits") /\ Ok /\ Ext(accounts, last'.token).approved)
              => \A d \in RejectedDeposits(accounts, last'.token) :
                    process_deposit(accounts', mint, last'.token, TheMint, d.authority,
                                    d.amount, d.decimals).err = "Ok" ]_vars

C22_Witness ==
    /\ last.op = "Transfer"
    /\ last.err = "ConfidentialTransferDepositsAndTransfersDisabled"
    /\ last.token # last.destination
    /\ last.call.amount > 0
    /\ Ext(accounts, last.destination).approved
    /\ ~Ext(accounts, last.destination).allow_confidential_credits
    /\ RejectedDeposits(accounts, last.destination) # {}

(* C23: a credit-toggle instruction signed by the account's owner sets, on *)
(* a configured account, the flag it names to the value it names and       *)
(* changes nothing else of any account or of the mint; one that the owner  *)
(* has not signed fails and changes nothing.                               *)
C23_CreditToggles ==
    [][ LET t == last'.token
            Confidential == {"EnableConfidentialCredits", "DisableConfidentialCredits"}
            NonConfidential == {"EnableNonConfidentialCredits",
                                "DisableNonConfidentialCredits"}
            Enables == {"EnableConfidentialCredits", "EnableNonConfidentialCredits"}
        IN  (last'.op \in Confidential \cup NonConfidential)
            => /\ (BySigningOwner /\ Ext(accounts, t).initialized)
                      => /\ Ok
                         /\ mint' = mint
                         /\ accounts' =
                               IF last'.op \in Confidential
                               THEN [accounts EXCEPT
                                       ![t].confidential_transfer.allow_confidential_credits
                                           = last'.op \in Enables]
                               ELSE [accounts EXCEPT
                                       ![t].confidential_transfer.allow_non_confidential_credits
                                           = last'.op \in Enables]
               /\ ~BySigningOwner => ~Ok /\ Unchanged ]_vars

C23_Witness ==
    /\ last.op = "DisableConfidentialCredits"
    /\ last.err = "Ok"
    /\ ~Ext(accounts, last.token).allow_confidential_credits
    /\ Ext(accounts, last.token).allow_non_confidential_credits
    /\ Ext(accounts, last.token).approved
    /\ Counter(accounts, last.token) > 0
    /\ Pending(accounts, last.token) > 0

(* C24: a transfer, with or without fee, to an account that requires memos *)
(* succeeds only when the instruction before it is a memo; without the     *)
(* memo it fails and changes no account, with NoMemo whenever the same     *)
(* transfer passes with the memo.                                          *)
C24_MemoRequired ==
    [][ (Step("Transfer") /\ accounts[last'.destination].memo_required)
        => LET c == last'.call
               WithMemo == process_transfer(accounts, mint, epoch, last'.token,
                                            last'.destination, TheMint, c.authority,
                                            c.hint, c.proof, c.offset, TRUE)
           IN  /\ Ok => c.previous_is_memo
               /\ ~c.previous_is_memo
                      => /\ ~Ok
                         /\ Unchanged
                         /\ WithMemo.err = "Ok" => Failed("NoMemo") ]_vars

C24_Witness ==
    /\ last.op = "Transfer"
    /\ last.err = "NoMemo"
    /\ last.token # last.destination
    /\ last.call.proof.proof_type = "TransferWithFee"
    /\ last.call.amount > 0
    /\ accounts[last.destination].memo_required
    /\ Available(accounts, last.token) >= last.call.amount

(* C25: no step changes the elgamal_pubkey of a configured account or      *)
(* unconfigures it; and empty_account, withdraw and transfer fail and      *)
(* change nothing when the key their proof attests for the account (the    *)
(* source's, and for a transfer also the destination's) is not the         *)
(* account's key, with ConfidentialTransferElGamalPubkeyMismatch whenever  *)
(* the same instruction passes with the account's key attested.            *)
C25_KeyFixed ==
    [][ LET t == last'.token
            d == last'.destination
            c == last'.call
            kind == c.proof.proof_type
            ctx == c.proof.proof_context
            Stored(a) == Ext(accounts, a).elgamal_pubkey
            Gated == /\ last'.op \in {"EmptyAccount", "Withdraw", "Transfer"}
                     /\ kind = ExpectedKind
            OfSource == CASE kind = "Transfer" -> ctx.transfer_pubkeys.source
                          [] kind = "TransferWithFee" -> ctx.transfer_with_fee_pubkeys.source
                          [] OTHER -> ctx.pubkey
            OfDestination == IF kind = "Transfer"
                             THEN ctx.transfer_pubkeys.destination
                             ELSE ctx.transfer_with_fee_pubkeys.destination
            Differs ==
                \/ Ext(accounts, t).initialized /\ OfSource # Stored(t)
                \/ /\ last'.op = "Transfer"
                   /\ Ext(accounts, d).initialized
                   /\ OfDestination # Stored(d)
            Attesting ==
                [c.proof EXCEPT !.proof_context =
                    CASE kind = "Transfer" ->
                             [ctx EXCEPT !.transfer_pubkeys.source = Stored(t),
                                         !.transfer_pubkeys.destination = Stored(d)]
                      [] kind = "TransferWithFee" ->
                             [ctx EXCEPT !.transfer_with_fee_pubkeys.source = Stored(t),
                                         !.transfer_with_fee_pubkeys.destination = Stored(d)]
                      [] OTHER -> [ctx EXCEPT !.pubkey = Stored(t)]]
            Passes ==
                CASE last'.op = "EmptyAccount" ->
                         process_empty_account(accounts, t, c.authority, Attesting,
                                               c.offset).err = "Ok"
                  [] last'.op = "Withdraw" ->
                         process_withdraw(accounts, mint, t, TheMint, c.authority, c.amount,
                                          c.decimals, c.hint, Attesting, c.offset).err = "Ok"
                  [] OTHER ->
                         process_transfer(accounts, mint, epoch, t, d, TheMint, c.authority,
                                          c.hint, Attesting, c.offset,
                                          c.previous_is_memo).err = "Ok"
        IN  /\ \A a \in Accts :
                  Ext(accounts, a).initialized
                      => /\ Ext(accounts', a).initialized
                         /\ Ext(accounts', a).elgamal_pubkey = Stored(a)
            /\ (Gated /\ Differs)
                  => /\ ~Ok
                     /\ Unchanged
                     /\ Passes => Failed("ConfidentialTransferElGamalPubkeyMismatch") ]_vars

C25_Witness ==
    /\ last.op = "Transfer"
    /\ last.err = "ConfidentialTransferElGamalPubkeyMismatch"
    /\ last.token # last.destination
    /\ last.call.proof.proof_type = "TransferWithFee"
    /\ last.call.proof.proof_context.transfer_with_fee_pubkeys.source
           = Ext(accounts, last.token).elgamal_pubkey
    /\ last.call.proof.proof_context.transfer_with_fee_pubkeys.destination
           # Ext(accounts, last.destination).elgamal_pubkey
    /\ last.call.proof.proof_context.transfer_with_fee_pubkeys.auditor
           = mint.confidential_transfer.auditor_elgamal_pubkey
    /\ last.call.proof.proof_context.transfer_with_fee_pubkeys.withdraw_withheld_authority
           = mint.confidential_transfer_fee.withdraw_withheld_authority_elgamal_pubkey
    /\ Ext(accounts, last.destination).initialized
    /\ last.call.amount > 0

(* C26: the available balance of a configured account rises only by an     *)
(* apply_pending_balance on it and falls only by a withdraw from it or a   *)
(* transfer out of it; a deposit into it and a transfer to it from another *)
(* account leave its available_balance and decryptable_available_balance   *)
(* as they are and change only its pending balances and credit counter.    *)
C26_AvailableBalance ==
    [][ \A a \in Accts :
          Ext(accounts, a).initialized
          => LET before == Ext(accounts, a)
                 after == Ext(accounts', a)
                 was == Available(accounts, a)
                 now == Available(accounts', a)
                 On(ops) == Ok /\ last'.op \in ops /\ last'.token = a
                 Incoming == \/ last'.op = "Deposit" /\ last'.token = a
                             \/ /\ last'.op = "Transfer"
                                /\ last'.destination = a
                                /\ last'.token # a
                 Rewritten == \/ after.available_balance # before.available_balance
                              \/ after.elgamal_pubkey # before.elgamal_pubkey
             IN  /\ Rewritten
                        => /\ Decryptable(after.available_balance, after.elgamal_pubkey)
                           /\ now > was => On({"ApplyPendingBalance"})
                           /\ now < was => On({"Withdraw", "Transfer"})
                 /\ after.available_balance # before.available_balance
                        => On({"ApplyPendingBalance", "Withdraw", "Transfer", "EmptyAccount"})
                 /\ Incoming
                        => /\ after.available_balance = before.available_balance
                           /\ after.decryptable_available_balance
                                  = before.decryptable_available_balance
                           /\ after = [before EXCEPT
                                         !.pending_balance_lo = after.pending_balance_lo,
                                         !.pending_balance_hi = after.pending_balance_hi,
                                         !.pending_balance_credit_counter =
                                             after.pending_balance_credit_counter] ]_vars

C26_Witness ==
    /\ last.op = "Transfer"
    /\ last.err = "Ok"
    /\ last.token # last.destination
    /\ last.call.amount > 0
    /\ Available(accounts, last.destination) = 0
    /\ Pending(accounts, last.destination) = last.call.amount
    /\ Counter(accounts, last.destination) = 1
    /\ Ext(accounts, last.destination).decryptable_available_balance = "zero"
    /\ Ext(accounts, last.token).decryptable_available_balance = "new"

(* C27 as stated: every step that changes the available_balance ciphertext *)
(* of a configured account also writes its decryptable_available_balance,  *)
(* with the value the instruction carries.                                 *)
C27_AsStated ==
    [][ \A a \in Accts :
          ( /\ Ext(accounts, a).initialized
            /\ Ext(accounts', a).available_balance # Ext(accounts, a).available_balance )
          => /\ last'.token = a
             /\ last'.call.hint # None
             /\ Ext(accounts', a).decryptable_available_balance = last'.call.hint ]_vars

(* C27: a successful withdraw, transfer out or apply_pending_balance on an *)
(* account writes the decryptable balance the caller gives in the same     *)
(* step in which it writes available_balance, and nothing else writes the  *)
(* decryptable balance of a configured account; the one other step that    *)
(* changes available_balance is empty_account, which replaces a ciphertext *)
(* of 0 by the zero ciphertext and leaves the decryptable balance as it    *)
(* is.                                                                     *)
C27_LockStep ==
    [][ \A a \in Accts :
          Ext(accounts, a).initialized
          => LET before == Ext(accounts, a)
                 after == Ext(accounts', a)
                 Writes == /\ Ok
                           /\ last'.token = a
                           /\ last'.op \in {"Withdraw", "Transfer", "ApplyPendingBalance"}
                 Empties == Ok /\ last'.token = a /\ last'.op = "EmptyAccount"
             IN  /\ Writes => after.decryptable_available_balance = last'.call.hint
                 /\ after.decryptable_available_balance # before.decryptable_available_balance
                        => Writes
                 /\ after.available_balance # before.available_balance
                        => \/ Writes
                           \/ /\ Empties
                              /\ Available(accounts, a) = 0
                              /\ after.available_balance = Zeroed
                              /\ after.decryptable_available_balance
                                     = before.decryptable_available_balance ]_vars

C27_Witness ==
    /\ last.op = "EmptyAccount"
    /\ last.err = "Ok"
    /\ last.call.hint = None
    /\ last.call.proof.proof_context.ciphertext # Zeroed
    /\ Ext(accounts, last.token).available_balance = Zeroed
    /\ Ext(accounts, last.token).decryptable_available_balance = "new"

(* C28: a transfer whose proof resolves is rejected without effect with    *)
(* ConfidentialTransferElGamalPubkeyMismatch when the auditor key the      *)
(* proof attests is not the mint's or, for a fee-bearing transfer, the     *)
(* withdraw-withheld-authority key is not the mint's; a fee-bearing        *)
(* transfer whose keys are the mint's is rejected without effect with      *)
(* FeeParametersMismatch when the basis points or the maximum fee the      *)
(* proof attests are not the mint's for the current epoch.                 *)
C28_MintParameters ==
    [][ ( /\ Step("Transfer")
          /\ last'.call.proof.proof_type = ExpectedKind
          /\ ~mint.non_transferable
          /\ mint.confidential_transfer.initialized )
        => LET ctx == last'.call.proof.proof_context
               fee == get_epoch_fee(mint.transfer_fee, epoch)
               Rejected(err) == Failed(err) /\ Unchanged
           IN  IF ~FeeDue
               THEN ctx.transfer_pubkeys.auditor
                        # mint.confidential_transfer.auditor_elgamal_pubkey
                    => Rejected("ConfidentialTransferElGamalPubkeyMismatch")
               ELSE LET keys == ctx.transfer_with_fee_pubkeys
                        KeysFit ==
                            /\ keys.auditor = mint.confidential_transfer.auditor_elgamal_pubkey
                            /\ keys.withdraw_withheld_authority
                                   = mint.confidential_transfer_fee
                                         .withdraw_withheld_authority_elgamal_pubkey
                        FeeFits ==
                            /\ ctx.fee_parameters.fee_rate_basis_points
                                   = fee.transfer_fee_basis_points
                            /\ ctx.fee_parameters.maximum_fee = fee.maximum_fee
                    IN  /\ ~KeysFit => Rejected("ConfidentialTransferElGamalPubkeyMismatch")
                        /\ (KeysFit /\ ~FeeFits) => Rejected("FeeParametersMismatch")
                        /\ Ok => KeysFit /\ FeeFits ]_vars

C28_Witness ==
    /\ last.op = "Transfer"
    /\ last.err = "FeeParametersMismatch"
    /\ epoch = 1
    /\ last.call.amount > 0
    /\ last.call.proof.proof_context.fee_parameters.fee_rate_basis_points
           = TEST_FEE_BASIS_POINTS
    /\ last.call.proof.proof_context.fee_parameters.maximum_fee = TEST_MAXIMUM_FEE
    /\ Available(accounts, last.token) >= last.call.amount

C30_Conservation ==
    LET Value(a) == accounts[a].amount + Available(accounts, a) + Pending(accounts, a)
                        + WithheldAmount(accounts, a)
    IN  /\ \A a \in Accts :
              /\ \A b \in { Ext(accounts, a).available_balance,
                             Ext(accounts, a).pending_balance_lo,
                             Ext(accounts, a).pending_balance_hi } :
                    Decryptable(b, Ext(accounts, a).elgamal_pubkey)
              /\ Decryptable(Withheld(accounts, a).withheld_amount, WithdrawAuthorityKey)
        /\ Value("A") + Value("B") = Scn.supply

C30_Witness ==
    /\ last.op = "ApplyPendingBalance"
    /\ last.err = "Ok"
    /\ last.token = "B"
    /\ accounts["A"].amount = 0
    /\ Available(accounts, "A") = 0
    /\ Available(accounts, "B") = 97
    /\ Pending(accounts, "B") = 0
    /\ WithheldAmount(accounts, "B") = 3

(* C31 as stated: in every reachable state the plaintexts of                *)
(* pending_balance_lo and pending_balance_hi of every account are each      *)
(* non-negative, fee-bearing transfers included.                            *)
C31_AsStated ==
    \A a \in Accts :
        Ext(accounts, a).initialized
        => /\ PendingLo(accounts, a) >= 0
           /\ PendingHi(accounts, a) >= 0

(* C32: in every reachable state the plaintext of pending_balance_lo is at  *)
(* most pending_balance_credit_counter times 2^16 - 1 and that of           *)
(* pending_balance_hi at most the counter times the largest high part, so   *)
(* both are bounded by maximum_pending_balance_credit_counter times those   *)
(* limits.                                                                  *)
C32_PendingBounds ==
    \A a \in Accts :
        Ext(accounts, a).initialized
        => /\ Decryptable(Ext(accounts, a).pending_balance_lo, Ext(accounts, a).elgamal_pubkey)
           /\ Decryptable(Ext(accounts, a).pending_balance_hi, Ext(accounts, a).elgamal_pubkey)
           /\ PendingLo(accounts, a) <= Counter(accounts, a) * U16_MAX
           /\ PendingHi(accounts, a) <= Counter(accounts, a) * (Pow2(HiBits) - 1)
           /\ PendingLo(accounts, a) <= Cap(accounts, a) * U16_MAX
           /\ PendingHi(accounts, a) <= Cap(accounts, a) * (Pow2(HiBits) - 1)

C32_Witness ==
    /\ last.op = "Deposit"
    /\ last.err = "Ok"
    /\ Counter(accounts, last.token) = 1
    /\ PendingLo(accounts, last.token) = U16_MAX
    /\ PendingHi(accounts, last.token) = Pow2(HiBits) - 1

(* C33: with the proof contexts the proof facility yields, the available    *)
(* balance of every configured account decrypts to a number that is never   *)
(* negative, and a withdraw or a transfer out that succeeds takes no more   *)
(* than the source's available balance before it.                           *)
C33_NeverOverdrawn ==
    [][ /\ \A a \in Accts :
              Ext(accounts', a).initialized
              => /\ Decryptable(Ext(accounts', a).available_balance,
                                Ext(accounts', a).elgamal_pubkey)
                 /\ Available(accounts', a) >= 0
        /\ Ok /\ last'.op \in {"Withdraw", "Transfer"}
              => LET a == last'.token
                     taken == IF last'.op = "Withdraw" THEN last'.call.amount
                              ELSE AttestedAmount(last'.call.proof)
                 IN  /\ taken <= Available(accounts, a)
                     /\ Available(accounts', a) = Available(accounts, a) - taken ]_vars

C33_Witness ==
    /\ last.op = "Withdraw"
    /\ last.err = "Ok"
    /\ last.call.amount = Pow2(LoBits) + 1
    /\ Available(accounts, last.token) = 0
    /\ accounts[last.token].amount = Scn.supply

(* C34: a deposit of a, at most 2^48 - 1, by the signing owner into an      *)
(* approved account that allows confidential credits fails with Overflow    *)
(* and changes nothing when a exceeds the plaintext amount; when it         *)
(* succeeds it debits the plaintext amount by exactly a, adds a mod 2^16 to *)
(* pending_balance_lo and a div 2^16 to pending_balance_hi (a part of 0     *)
(* leaves its ciphertext as it is), adds one to                             *)
(* pending_balance_credit_counter even when a = 0 and changes nothing else; *)
(* it succeeds unless the counter is at its maximum.                        *)
C34_Deposit ==
    [][ Step("Deposit")
        => LET a == last'.token
               c == last'.call
               before == Ext(accounts, a)
               after == Ext(accounts', a)
               fits == /\ c.amount <= MAXIMUM_DEPOSIT_TRANSFER_AMOUNT
                       /\ c.authority = Signer(a)
                       /\ c.decimals = mint.decimals
                       /\ ~mint.non_transferable
                       /\ ~accounts[a].frozen
                       /\ before.initialized
                       /\ valid_as_destination(before) = "Ok"
           IN  /\ fits /\ c.amount > accounts[a].amount => Failed("Overflow") /\ Unchanged
               /\ fits /\ c.amount <= accounts[a].amount
                      => IF before.pending_balance_credit_counter
                                < before.maximum_pending_balance_credit_counter
                         THEN Ok
                         ELSE Failed("MaximumPendingBalanceCreditCounterExceeded") /\ Unchanged
               /\ Ok => /\ fits
                        /\ accounts'[a].amount = accounts[a].amount - c.amount
                        /\ PendingLo(accounts', a)
                               = PendingLo(accounts, a) + (c.amount % Pow2(LoBits))
                        /\ PendingHi(accounts', a)
                               = PendingHi(accounts, a) + (c.amount \div Pow2(LoBits))
                        /\ (c.amount % Pow2(LoBits)) = 0
                               => after.pending_balance_lo = before.pending_balance_lo
                        /\ (c.amount \div Pow2(LoBits)) = 0
                               => after.pending_balance_hi = before.pending_balance_hi
                        /\ after.pending_balance_credit_counter
                               = before.pending_balance_credit_counter + 1
                        /\ accounts' =
                               [accounts EXCEPT
                                   ![a].amount = accounts'[a].amount,
                                   ![a].confidential_transfer =
                                       [before EXCEPT
                                           !.pending_balance_lo = after.pending_balance_lo,
                                           !.pending_balance_hi = after.pending_balance_hi,
                                           !.pending_balance_credit_counter =
                                               after.pending_balance_credit_counter]] ]_vars

C34_Witness ==
    /\ last.op = "Deposit"
    /\ last.err = "Ok"
    /\ last.call.amount = Pow2(LoBits) + 1
    /\ PendingLo(accounts, last.token) = 1
    /\ PendingHi(accounts, last.token) = 1
    /\ Counter(accounts, last.token) = 1
    /\ Available(accounts, last.token) = 0
    /\ accounts[last.token].amount = 1

(* C35: no step sets approved of a configured account from true to false;   *)
(* every deposit to, withdraw from and transfer from or to an account that  *)
(* is not approved is rejected; and an account that is not approved has     *)
(* zero pending, available and withheld balances and a credit counter of 0. *)
C35_Approval ==
    [][ \A a \in Accts :
          /\ Ext(accounts, a).initialized /\ Ext(accounts, a).approved
                => Ext(accounts', a).approved
          /\ (~Ext(accounts, a).approved
                /\ (\/ last'.op \in {"Deposit", "Withdraw", "Transfer"} /\ last'.token = a
                    \/ last'.op = "Transfer" /\ last'.destination = a))
                => ~Ok /\ Unchanged
          /\ ~Ext(accounts', a).approved
                => /\ AllZero(accounts', a)
                   /\ accounts'[a].confidential_transfer_fee_amount.withheld_amount = Zeroed
                   /\ Counter(accounts', a) = 0 ]_vars

C35_Witness ==
    /\ last.op = "Transfer"
    /\ last.err # "Ok"
    /\ last.token # last.destination
    /\ last.call.amount > 0
    /\ Available(accounts, last.token) = last.call.amount
    /\ Ext(accounts, last.token).approved
    /\ Ext(accounts, last.destination).initialized
    /\ ~Ext(accounts, last.destination).approved

(* C36: a withdraw of an amount > 0 that succeeds with a withdraw proof     *)
(* context was generated for the available balance it found and leaves      *)
(* another one, so the same instruction with the same context straight      *)
(* after it fails with ConfidentialTransferBalanceMismatch and changes      *)
(* nothing; and so does every later one while the available balance is not  *)
(* the ciphertext the context was generated against, if nothing else stands *)
(* against the withdraw.                                                    *)
C36_NoReplay ==
    [][ /\ Step("Withdraw")
        /\ last'.call.proof.proof_type = "Withdraw"
        /\ last'.call.amount = last'.call.proof.amount
        /\ last'.call.amount > 0
        => LET a == last'.token
               c == last'.call
               balance == Ext(accounts, a).available_balance
           IN  /\ Ok => /\ balance = c.proof.snapshot
                        /\ Ext(accounts', a).available_balance # c.proof.snapshot
               /\ last.op = "Withdraw" /\ last.err = "Ok" /\ last.token = a /\ last.call = c
                      => Failed("ConfidentialTransferBalanceMismatch") /\ Unchanged
               /\ balance # c.proof.snapshot
                      => /\ ~Ok
                         /\ Unchanged
                         /\ WithFreshProof.err \in {"Ok", "Overflow"}
                                => Failed("ConfidentialTransferBalanceMismatch") ]_vars

C36_Witness ==
    /\ trip.phase = "withdrawn"
    /\ trip.amount > 0
    /\ last.op = "Withdraw"
    /\ last.token = Holder
    /\ last.err = "ConfidentialTransferBalanceMismatch"
    /\ last.call.offset = 0
    /\ last.call.amount = trip.amount
    /\ last.call.proof.snapshot = add_to(Ext(accounts, Holder).available_balance, trip.amount)

(* C37: a step taken while an account is frozen leaves the total value the  *)
(* account holds, plaintext amount + available + pending_lo + 2^16 *        *)
(* pending_hi + withheld fee, as it was; a deposit to it, a withdraw from   *)
(* it and a transfer from or to it fail and change nothing, with            *)
(* AccountFrozen when the instruction would go through with no account      *)
(* frozen; apply_pending_balance, empty_account, approve_account and the    *)
(* credit toggles are not stopped by the frozen flag.                       *)
C37_Frozen ==
    [][ \A a \in Accts :
          accounts[a].frozen
          => LET Total(accts) == accts[a].amount + Available(accts, a) + Pending(accts, a)
                                     + WithheldAmount(accts, a)
                 c == last'.call
                 Moves == \/ last'.op \in {"Deposit", "Withdraw", "Transfer"} /\ last'.token = a
                          \/ last'.op = "Transfer" /\ last'.destination = a
                 thawed == [x \in Accts |-> [accounts[x] EXCEPT !.frozen = FALSE]]
                 Thawed ==
                     CASE last'.op = "Deposit" ->
                              process_deposit(thawed, mint, last'.token, TheMint, c.authority,
                                              c.amount, c.decimals)
                       [] last'.op = "Withdraw" ->
                              process_withdraw(thawed, mint, last'.token, TheMint, c.authority,
                                               c.amount, c.decimals, c.hint, c.proof, c.offset)
                       [] OTHER ->
                              process_transfer(thawed, mint, epoch, last'.token,
                                               last'.destination, TheMint, c.authority, c.hint,
                                               c.proof, c.offset, c.previous_is_memo)
             IN  /\ Total(accounts') = Total(accounts)
                 /\ Moves => /\ ~Ok
                             /\ Unchanged
                             /\ Thawed.err = "Ok" => Failed("AccountFrozen")
                 /\ last'.op \in {"ApplyPendingBalance", "EmptyAccount", "ApproveAccount",
                                  "EnableConfidentialCredits", "DisableConfidentialCredits",
                                  "EnableNonConfidentialCredits",
                                  "DisableNonConfidentialCredits"}
                       => last'.err # "AccountFrozen" ]_vars

C37_Witness ==
    /\ last.op = "ApplyPendingBalance"
    /\ last.err = "Ok"
    /\ accounts[last.token].frozen
    /\ accounts[last.token].amount = 0
    /\ Available(accounts, last.token) = Scn.supply
    /\ Pending(accounts, last.token) = 0
    /\ Scn.supply > 0

(* The step does not lock funds, for accounts whose maximum credit counter  *)
(* is among maxima.  On an approved account that is not frozen and has a    *)
(* credit flag switched off, a withdraw, a transfer out to another account  *)
(* and an apply_pending_balance end as they do with both flags on.  An      *)
(* apply_pending_balance on an account whose credit counter is at the       *)
(* maximum leaves the account accepting a deposit and an incoming transfer. *)
FundsNotLocked(maxima) ==
    \A a \in Accts :
        LET c == last'.call
            before == Ext(accounts, a)
            after == Ext(accounts', a)
            opened == [accounts EXCEPT
                          ![a].confidential_transfer.allow_confidential_credits = TRUE,
                          ![a].confidential_transfer.allow_non_confidential_credits = TRUE]
            Opened ==
                CASE last'.op = "Withdraw" ->
                         process_withdraw(opened, mint, a, TheMint, c.authority, c.amount,
                                          c.decimals, c.hint, c.proof, c.offset)
                  [] last'.op = "Transfer" ->
                         process_transfer(opened, mint, epoch, a, last'.destination, TheMint,
                                          c.authority, c.hint, c.proof, c.offset,
                                          c.previous_is_memo)
                  [] OTHER ->
                         process_apply_pending_balance(opened, a, c.authority, c.amount, c.hint)
            TakesOut == \/ last'.op \in {"Withdraw", "ApplyPendingBalance"}
                        \/ last'.op = "Transfer" /\ last'.destination # a
            Accepting == /\ after.approved
                         /\ after.allow_confidential_credits
                         /\ ~accounts'[a].frozen
                         /\ ~accounts'[a].memo_required
                         /\ ~mint.non_transferable
        IN  /\ (/\ last'.token = a
                /\ TakesOut
                /\ before.approved
                /\ ~accounts[a].frozen
                /\ ~before.allow_confidential_credits \/ ~before.allow_non_confidential_credits)
               => /\ last'.err = Opened.err
                  /\ Ok => /\ accounts'[a].amount = Opened.accounts[a].amount
                           /\ after.available_balance
                                  = Ext(Opened.accounts, a).available_balance
            /\ (/\ Step("ApplyPendingBalance")
                /\ last'.token = a
                /\ Ok
                /\ before.pending_balance_credit_counter
                       = before.maximum_pending_balance_credit_counter
                /\ before.maximum_pending_balance_credit_counter \in maxima
                /\ Accepting)
               => /\ process_deposit(accounts', mint, a, TheMint, Signer(a), 0,
                                     mint.decimals).err = "Ok"
                  /\ process_destination_for_transfer(accounts', a, TheMint, after.elgamal_pubkey,
                                                      Zeroed, Zeroed, << >>, FALSE).err = "Ok"

(* C38 as stated: the credit flags stop no withdraw, transfer out or        *)
(* apply_pending_balance of an approved account that is not frozen, and     *)
(* whenever the credit counter has reached the maximum a single             *)
(* apply_pending_balance makes deposits and incoming transfers succeed      *)
(* again.                                                                   *)
C38_AsStated == [][FundsNotLocked(Nat)]_vars

(* C38: as stated, for accounts whose maximum credit counter is not 0.      *)
C38_Unlocked == [][FundsNotLocked(Nat \ {0})]_vars

C38_Witness ==
    /\ last.op = "Withdraw"
    /\ last.err = "Ok"
    /\ last.call.amount > 0
    /\ ~Ext(accounts, last.token).allow_confidential_credits
    /\ ~Ext(accounts, last.token).allow_non_confidential_credits
    /\ Available(accounts, last.token) = 0
    /\ accounts[last.token].amount = last.call.amount

(* C39: an empty_account succeeds only with a zero-balance proof context    *)
(* whose key is the account's elgamal_pubkey and whose ciphertext is the    *)
(* account's available_balance; when the owner signs a zero-balance context *)
(* for a configured account, another key fails with                         *)
(* ConfidentialTransferElGamalPubkeyMismatch and, the key fitting, another  *)
(* ciphertext with InvalidInstructionData, both without effect; on success  *)
(* available_balance, pending_balance_lo and pending_balance_hi are the     *)
(* zero ciphertext and nothing else of the account has changed.             *)
C39_EmptyAccountProof ==
    [][ Step("EmptyAccount")
        => LET a == last'.token
               c == last'.call
               before == Ext(accounts, a)
               resolved == verify_proof("ZeroBalance", c.proof, c.offset)
               attested == resolved.context
           IN  /\ Ok => /\ resolved.err = "Ok"
                        /\ c.proof.proof_type = "ZeroBalance"
                        /\ attested.pubkey = before.elgamal_pubkey
                        /\ attested.ciphertext = before.available_balance
                        /\ AllZero(accounts', a)
                        /\ accounts' = [accounts EXCEPT
                                           ![a].confidential_transfer.available_balance = Zeroed]
               /\ (/\ resolved.err = "Ok"
                   /\ validate_owner(accounts[a].owner, c.authority) = "Ok"
                   /\ before.initialized)
                  => IF attested.pubkey # before.elgamal_pubkey
                     THEN Failed("ConfidentialTransferElGamalPubkeyMismatch") /\ Unchanged
                     ELSE IF attested.ciphertext # before.available_balance
                     THEN Failed("InvalidInstructionData") /\ Unchanged
                     ELSE \/ Ok
                          \/ Failed("ConfidentialTransferAccountHasBalance") /\ Unchanged ]_vars

C39_Witness ==
    /\ last.op = "EmptyAccount"
    /\ last.err = "Ok"
    /\ last.call.proof.proof_context.pubkey = Ext(accounts, last.token).elgamal_pubkey
    /\ last.call.proof.proof_context.ciphertext # Zeroed
    /\ AllZero(accounts, last.token)

(* C40: of the four 32-byte segments of a transfer-amount ciphertext, the   *)
(* source ciphertext extracted from it is the first two (bytes 0..64) and   *)
(* the destination ciphertext the first and the third (bytes 0..32 and      *)
(* 64..96); of the three segments of a fee ciphertext, the destination's    *)
(* extraction is the first two and the withdraw-withheld authority's the    *)
(* first and the third; every extraction of one ciphertext has that         *)
(* ciphertext's commitment.  Stated of the ciphertexts of every transfer's  *)
(* proof context.                                                           *)
C40_Extraction ==
    (last.op = "Transfer" /\ last.call.proof.proof_type \in {"Transfer", "TransferWithFee"})
    => LET context == last.call.proof.proof_context
           Segments(ct) == << ct.c, ct.h >>
       IN  /\ \A tac \in {context.ciphertext_lo, context.ciphertext_hi} :
                 /\ Len(tac) = 4
                 /\ Segments(transfer_amount_source_ciphertext(tac)) = SubSeq(tac, 1, 2)
                 /\ Segments(transfer_amount_destination_ciphertext(tac))
                        = SubSeq(tac, 1, 1) \o SubSeq(tac, 3, 3)
                 /\ transfer_amount_source_ciphertext(tac).c
                        = transfer_amount_destination_ciphertext(tac).c
           /\ last.call.proof.proof_type = "TransferWithFee"
                 => \A fee \in {context.fee_ciphertext_lo, context.fee_ciphertext_hi} :
                        /\ Len(fee) = 3
                        /\ Segments(fee_amount_destination_ciphertext(fee)) = SubSeq(fee, 1, 2)
                        /\ Segments(fee_amount_withdraw_withheld_authority_ciphertext(fee))
                               = SubSeq(fee, 1, 1) \o SubSeq(fee, 3, 3)
                        /\ fee_amount_destination_ciphertext(fee).c
                               = fee_amount_withdraw_withheld_authority_ciphertext(fee).c

C40_Witness ==
    /\ last.op = "Transfer"
    /\ last.err = "Ok"
    /\ last.call.proof.proof_type = "TransferWithFee"
    /\ LET lo == last.call.proof.proof_context.ciphertext_lo
           fee == last.call.proof.proof_context.fee_ciphertext_lo
       IN  /\ Cardinality({lo[2], lo[3], lo[4]}) = 3
           /\ fee[2] # fee[3]
           /\ lo[1] # fee[1]

====
